---------------------------- MODULE Spec2Model ----------------------------
(***************************************************************************)
(* Model of the RAGAS question-evolution pipeline                           *)
(* (lib/ragas/langgraph-implementation): the SimpleGraph runner, the six    *)
(* stage functions and RAGASLangGraph.run.                                  *)
(*                                                                          *)
(* Text returned by the language model is a sequence of one-character       *)
(* strings, so split / trim / endsWith are computed.  A document's          *)
(* content is a sequence of lines, each line a record                       *)
(*   [len, meta, colon]                                                     *)
(* (its length, whether it matches one of the metadata patterns, whether    *)
(* it contains ':'); lines carry no leading or trailing blanks and are      *)
(* joined by single newlines.  Timestamps are not modelled; uuidv4() is a   *)
(* counter.                                                                 *)
(***************************************************************************)
EXTENDS Integers, Sequences, FiniteSets, TLC

\* ------------------------------------------------------------------ bounds
MaxDocs == 2
ScriptLen == 3

\* ------------------------------------------------------- generic helpers
Min(a, b) == IF a < b THEN a ELSE b

\* Array.prototype.slice(from, to) on a 0-based array held as a 1-based sequence
Slice(s, from, to) == SubSeq(s, from + 1, Min(to, Len(s)))

IsPrefix(s, t) == Len(s) <= Len(t) /\ SubSeq(t, 1, Len(s)) = s

SeqOfLen(S, n) == [1..n -> S]

\* ------------------------------------------- character strings (responses)
IsWS(c) == c \in {" ", "\n", "\t"}

RECURSIVE TrimLeft(_)
TrimLeft(s) == IF s # <<>> /\ IsWS(Head(s)) THEN TrimLeft(Tail(s)) ELSE s

RECURSIVE TrimRight(_)
TrimRight(s) ==
    IF s # <<>> /\ IsWS(s[Len(s)]) THEN TrimRight(SubSeq(s, 1, Len(s) - 1)) ELSE s

\* String.prototype.trim
Trim(s) == TrimRight(TrimLeft(s))

\* String.prototype.split('\n'): never empty, '' splits into ['']
RECURSIVE SplitNL(_, _)
SplitNL(s, cur) ==
    IF s = <<>> THEN <<cur>>
    ELSE IF Head(s) = "\n" THEN <<cur>> \o SplitNL(Tail(s), <<>>)
    ELSE SplitNL(Tail(s), Append(cur, Head(s)))

EndsWithQ(s) == s # <<>> /\ s[Len(s)] = "?"

RECURSIVE FilterQuestions(_)
FilterQuestions(ls) ==
    IF ls = <<>> THEN <<>>
    ELSE IF Head(ls) # <<>> /\ EndsWithQ(Head(ls))
         THEN <<Head(ls)>> \o FilterQuestions(Tail(ls))
         ELSE FilterQuestions(Tail(ls))

RECURSIVE MapTrim(_)
MapTrim(ls) == IF ls = <<>> THEN <<>> ELSE <<Trim(Head(ls))>> \o MapTrim(Tail(ls))

\* 'What is the main topic discussed in this document?'
CannedQuestion ==
    << "W","h","a","t"," ","i","s"," ","t","h","e"," ","m","a","i","n"," ",
       "t","o","p","i","c"," ","d","i","s","c","u","s","s","e","d"," ",
       "i","n"," ","t","h","i","s"," ","d","o","c","u","m","e","n","t","?" >>

MaxSeedQuestionsMore == 3 + 1

MaxSeedQuestions == 3

\* ---------------------------------------------------- the TextCompletion
\* One settled call of chain.invoke: it rejects, or resolves with content.
Rejected == [rejects |-> TRUE, content |-> <<>>]

Resolved(text) == [rejects |-> FALSE, content |-> text]

Responses ==
    { Rejected,
      Resolved(<<>>),
      Resolved(<<"b", ".">>),
      Resolved(<<"a", "?", "\n", " ", "b", "?", " ">>),
      Resolved(<<"a", "?", "\n", "b", ".", "\n", "\n", " ", "c", "?", "\n",
                 "d", "?", "\n", "e", "?">>) }

\* ------------------------------------------------------ document contents
Line(n) == [len |-> n, meta |-> FALSE, colon |-> FALSE]

MetaLine(n) == [len |-> n, meta |-> TRUE, colon |-> TRUE]

Blank == Line(0)

\* one sentence of 80 characters
ContentSentence == << Line(80) >>

\* a header, then four paragraphs, one of them longer than 1000 characters
ContentParagraphs ==
    << MetaLine(16), Blank, Line(60), Blank, Line(1200), Blank, Line(70),
       Line(40), Blank, Blank, Line(90) >>

\* short lines only: no paragraph, one chunk of lines
ContentLines == << Line(40), Blank, Line(45), Blank, Line(40) >>

\* nothing usable: too short for any strategy
ContentTiny == << Line(12) >>

Contents == { ContentSentence, ContentParagraphs, ContentLines, ContentTiny }

Documents == { [pageContent |-> c, metadata |-> "upload"] : c \in Contents }

\* ------------------------------------------------------ PassageExtractor
MetadataScanLines == 20

ShortLine == 10

ContentLineMin == 30

MinPassage == 50

MinLine == 20

ChunkTarget == 500

ChunkMin == 100

MaxParagraph == 1000

EllipsisLen == 3

SliceMinContent == 100

MaxPassagesMore == 3 + 1

\* passages.slice(0, 3)
MaxPassages == 3

RECURSIVE SumLen(_, _, _)
\* length of lines i..j of c joined by '\n'
SumLen(c, i, j) ==
    IF i > j THEN 0
    ELSE c[i].len + (IF i < j THEN 1 ELSE 0) + SumLen(c, i + 1, j)

\* content.length
ContentLength(c) == SumLen(c, 1, Len(c))

RECURSIVE ScanStart(_, _, _)
\* the metadata-skipping loop: the startIndex it leaves
ScanStart(c, i, start) ==
    IF i >= Min(MetadataScanLines, Len(c)) THEN start
    ELSE LET line == c[i + 1] IN
         IF line.meta \/ line.len = 0 \/ line.len < ShortLine
         THEN ScanStart(c, i + 1, i + 1)
         ELSE IF line.len > ContentLineMin /\ ~line.colon THEN start
         ELSE ScanStart(c, i + 1, start)

RECURSIVE RunEnd(_, _)
\* last line of the run of non-blank lines that starts at line i
RunEnd(c, i) ==
    IF i < Len(c) /\ c[i + 1].len > 0 THEN RunEnd(c, i + 1) ELSE i

\* One piece of mainContent.split(/\n\n+/) holding lines i..j: a single
\* newline at the very start or end of mainContent stays in the piece.
Paragraph(c, start, i, j) ==
    LET lead == IF i = start + 2 /\ c[start + 1].len = 0 THEN 1 ELSE 0
        trail == IF j = Len(c) - 1 /\ c[Len(c)].len = 0 THEN 1 ELSE 0
    IN [first |-> i, last |-> j,
        trimLen |-> SumLen(c, i, j),
        rawLen |-> SumLen(c, i, j) + lead + trail]

RECURSIVE SplitParagraphs(_, _, _)
\* the pieces of mainContent.split(/\n\n+/) that are not blank
SplitParagraphs(c, start, i) ==
    IF i > Len(c) THEN <<>>
    ELSE IF c[i].len = 0 THEN SplitParagraphs(c, start, i + 1)
    ELSE LET j == RunEnd(c, i) IN
         <<Paragraph(c, start, i, j)>> \o SplitParagraphs(c, start, j + 1)

RECURSIVE FilterParagraphs(_)
FilterParagraphs(ps) ==
    IF ps = <<>> THEN <<>>
    ELSE IF Head(ps).trimLen > MinPassage
         THEN <<Head(ps)>> \o FilterParagraphs(Tail(ps))
         ELSE FilterParagraphs(Tail(ps))

RECURSIVE ParagraphPassages(_)
\* paragraphs as passages, the long ones cut to 1000 characters plus '...'
ParagraphPassages(ps) ==
    IF ps = <<>> THEN <<>>
    ELSE LET p == Head(ps) IN
         (IF p.trimLen > MinPassage
          THEN IF p.rawLen > MaxParagraph
               THEN << [kind |-> "paragraph", first |-> p.first, last |-> p.last,
                        len |-> MaxParagraph + EllipsisLen, truncated |-> TRUE] >>
               ELSE << [kind |-> "paragraph", first |-> p.first, last |-> p.last,
                        len |-> p.trimLen, truncated |-> FALSE] >>
          ELSE <<>>) \o ParagraphPassages(Tail(ps))

RECURSIVE LongLines(_, _)
\* indices of the lines of mainContent longer than 20 characters
LongLines(c, i) ==
    IF i > Len(c) THEN <<>>
    ELSE IF c[i].len > MinLine THEN <<i>> \o LongLines(c, i + 1)
    ELSE LongLines(c, i + 1)

ChunkPassage(cur) ==
    [kind |-> "lines", first |-> cur.first, last |-> cur.last,
     len |-> cur.len, truncated |-> FALSE]

RECURSIVE ChunkLines(_, _, _)
\* group lines into chunks of about 500 characters
ChunkLines(c, idx, cur) ==
    IF idx = <<>>
    THEN IF cur.len > MinPassage THEN <<ChunkPassage(cur)>> ELSE <<>>
    ELSE LET i == Head(idx)
             n == c[i].len
         IN IF cur.len + n > ChunkTarget /\ cur.len > ChunkMin
            THEN <<ChunkPassage(cur)>>
                 \o ChunkLines(c, Tail(idx), [first |-> i, last |-> i, len |-> n])
            ELSE ChunkLines(c, Tail(idx),
                     [first |-> IF cur.len = 0 THEN i ELSE cur.first,
                      last |-> i,
                      len |-> cur.len + (IF cur.len > 0 THEN 1 ELSE 0) + n])

\* content[p] is a newline (p counts characters from 0)
IsNewline(c, p) == \E k \in 1..(Len(c) - 1) : SumLen(c, 1, k) = p

RECURSIVE LeadingNewlines(_, _, _)
LeadingNewlines(c, a, b) ==
    IF a < b /\ IsNewline(c, a) THEN 1 + LeadingNewlines(c, a + 1, b) ELSE 0

RECURSIVE TrailingNewlines(_, _, _)
TrailingNewlines(c, a, b) ==
    IF a < b /\ IsNewline(c, b - 1) THEN 1 + TrailingNewlines(c, a, b - 1) ELSE 0

RECURSIVE SlicePassages(_, _)
\* fixed 500-character slices of the raw content, trimmed
SlicePassages(c, i) ==
    IF i >= ContentLength(c) THEN <<>>
    ELSE LET b == Min(i + ChunkTarget, ContentLength(c))
             lead == LeadingNewlines(c, i, b)
             a == i + lead
             trail == TrailingNewlines(c, a, b)
             n == b - trail - a
         IN (IF n > MinPassage
             THEN << [kind |-> "slice", first |-> a, last |-> b - trail,
                      len |-> n, truncated |-> FALSE] >>
             ELSE <<>>) \o SlicePassages(c, i + ChunkTarget)

\* extractRelevantPassages(question, content)
extractRelevantPassages(question, content) ==
    LET startIndex == ScanStart(content, 0, 0)
        paragraphs == FilterParagraphs(SplitParagraphs(content, startIndex, startIndex + 1))
        passages == IF paragraphs = <<>>
                    THEN ChunkLines(content, LongLines(content, startIndex + 1),
                                    [first |-> 0, last |-> 0, len |-> 0])
                    ELSE ParagraphPassages(paragraphs)
        final == IF passages = <<>> /\ ContentLength(content) > SliceMinContent
                 THEN SlicePassages(content, 0)
                 ELSE passages
    IN Slice(final, 0, MaxPassages)

\* ------------------------------------------------------------------ state
VARIABLES
    currentState,   \* SimpleGraph.invoke: the running RAGASState
    currentNode,    \* SimpleGraph.invoke: name of the node to run, or "END"
    frame,          \* the active stage function's local variables
    script,         \* the TextCompletion's answers, used cyclically
    calls,          \* number of TextCompletion calls made so far
    allRejected,    \* every TextCompletion call so far rejected
    uuid,           \* uuidv4(): ids handed out so far
    stageLog,       \* names of the stage functions called, in call order
    result,         \* what run() has produced
    failedCalls,    \* number of TextCompletion calls that rejected so far
    awaiting,       \* the stage function is suspended at the await of a call
    inFlight,       \* TextCompletion calls issued and not yet settled
    invokeError,    \* run: the value caught from graph.invoke, if any
    graph,          \* SimpleGraph: its nodes, edges and startNode
    initialObject,  \* SimpleGraph.invoke: the object passed as initialState
    requests,       \* RateLimiter: identifier -> recorded request times
    now,            \* Date.now()
    allowedLog,     \* identifier -> times of every call isAllowed let through
    lastCall,       \* the last RateLimiter call and what it returned
    suspended,      \* the variables of a second run() that is not executing
    extracted,      \* extractRelevantPassages: the calls made and what they returned
    validatedConfig, \* POST: the generation configuration after validation
    response        \* POST: the response to the request, once sent

vars == << currentState, currentNode, frame, script, calls, allRejected, uuid,
           stageLog, result, failedCalls, awaiting, inFlight, invokeError,
           graph, initialObject, requests, now, allowedLog, lastCall,
           suspended, extracted, validatedConfig, response >>

\* the variables of SimpleGraph alone and of the RateLimiter
elsewhere ==
    << graph, initialObject, requests, now, allowedLog, lastCall, suspended,
       extracted, validatedConfig, response >>

NoFrame == [fn |-> "none", pc |-> "none"]

Pending == [status |-> "pending"]

\* --------------------------------------------------------------- the graph
nodesMisnamed ==
    [process_documents |-> "processDocuments",
     simple_evolution |-> "simpleEvolution",
     multi_context_evolution |-> "multiContextEvolution",
     reasoning_evolution |-> "reasoningEvolution",
     generate_answers |-> "generateAnswers",
     retrieve_context |-> "retrieveContexts"]

\* createGraph: addNode
nodes ==
    [process_documents |-> "processDocuments",
     simple_evolution |-> "simpleEvolution",
     multi_context_evolution |-> "multiContextEvolution",
     reasoning_evolution |-> "reasoningEvolution",
     generate_answers |-> "generateAnswers",
     retrieve_contexts |-> "retrieveContexts"]

edgesSkipMultiContext ==
    [process_documents |-> "simple_evolution",
     simple_evolution |-> "reasoning_evolution",
     multi_context_evolution |-> "reasoning_evolution",
     reasoning_evolution |-> "generate_answers",
     generate_answers |-> "retrieve_contexts",
     retrieve_contexts |-> "END"]

\* createGraph: addEdge
edges ==
    [process_documents |-> "simple_evolution",
     simple_evolution |-> "multi_context_evolution",
     multi_context_evolution |-> "reasoning_evolution",
     reasoning_evolution |-> "generate_answers",
     generate_answers |-> "retrieve_contexts",
     retrieve_contexts |-> "END"]

\* createGraph: setStart
startNode == "process_documents"

\* run: initialState
initialState(documents) ==
    [documents |-> documents,
     processed_docs |-> <<>>,
     evolved_questions |-> <<>>,
     question_answers |-> <<>>,
     question_contexts |-> <<>>,
     errors |-> <<>>]

MergeKeepOld(state, partial) ==
    [k \in DOMAIN state \cup DOMAIN partial |->
        IF k \in DOMAIN state THEN state[k] ELSE partial[k]]

\* invoke: { ...currentState, ...partialState }
Merge(state, partial) ==
    [k \in DOMAIN state \cup DOMAIN partial |->
        IF k \in DOMAIN partial THEN partial[k] ELSE state[k]]

SuccessorInNoDefault(E, node) == IF node \in DOMAIN E THEN E[node] ELSE "ghost"

\* invoke: this.edges.get(currentNode) || 'END', for the edge map E
SuccessorIn(E, node) ==
    IF node \in DOMAIN E /\ E[node] # "" THEN E[node] ELSE "END"

\* invoke: the successor in the graph that createGraph builds
Successor(node) == SuccessorIn(edges, node)

DocIdOneBased(i) == <<"doc_", i + 1>>

\* `doc_${i}`
DocId(i) == <<"doc_", i>>

\* a value is truthy: neither null nor ''
Truthy(v) == ~v.null /\ v.text # <<>>

Null == [null |-> TRUE, text |-> <<>>]

Text(t) == [null |-> FALSE, text |-> t]

\* the answer the TextCompletion gives to the next call
NextResponse == script[(calls % ScriptLen) + 1]

\* ------------------------------------------------------- stage functions
\* extractInitialQuestions: never throws, the call sits inside its try
extractInitialQuestions(content, resp) ==
    IF resp.rejects
    THEN [threw |-> FALSE, value |-> <<CannedQuestion>>]
    ELSE LET questions ==
                 Slice(FilterQuestions(MapTrim(SplitNL(resp.content, <<>>))),
                       0, MaxSeedQuestions)
         IN [threw |-> FALSE,
             value |-> IF Len(questions) > 0 THEN questions ELSE <<CannedQuestion>>]

\* evolveQuestionSimple, evolveQuestionMultiContext, evolveQuestionReasoning
\* and generateAnswer share one shape: the trimmed content, or null
TrimmedOrNull(resp) ==
    IF resp.rejects
    THEN [threw |-> FALSE, value |-> Null]
    ELSE [threw |-> FALSE, value |-> Text(Trim(resp.content))]

evolveQuestionSimple(question, context, resp) == TrimmedOrNull(resp)

evolveQuestionMultiContext(question, context1, context2, resp) == TrimmedOrNull(resp)

evolveQuestionReasoning(question, context, resp) == TrimmedOrNull(resp)

generateAnswerWithFallback(question, contexts, resp) ==
    IF resp.rejects
    THEN [threw |-> FALSE, value |-> Text(<< "n", "/", "a" >>)]
    ELSE TrimmedOrNull(resp)

generateAnswer(question, contexts, resp) == TrimmedOrNull(resp)

MinMultiContextDocsLow == 2 - 1

\* multiContextEvolution: state.processed_docs.length < 2
MinMultiContextDocs == 2

ReasoningCandidatesMore == 2 + 1

\* reasoningEvolution: evolved_questions.slice(0, 2)
ReasoningCandidates == 2

FreshQuestions(state) == <<>>

\* [...(state.evolved_questions || [])]
CopyQuestions(state) == state.evolved_questions

FreshErrors(state) == <<>>

\* [...(state.errors || [])]
CopyErrors(state) == state.errors

\* the local variables a stage function starts with
NewFrame(node, state) ==
    CASE nodes[node] = "processDocuments" ->
           [fn |-> "processDocuments", pc |-> "loop", i |-> 0, processed_docs |-> <<>>]
      [] nodes[node] = "simpleEvolution" ->
           [fn |-> "simpleEvolution", pc |-> "loop", d |-> 1, q |-> 1,
            evolved_questions |-> CopyQuestions(state),
            errors |-> CopyErrors(state)]
      [] nodes[node] = "multiContextEvolution" ->
           IF Len(state.processed_docs) < MinMultiContextDocs
           THEN [fn |-> "multiContextEvolution", pc |-> "done", i |-> 0,
                 evolved_questions |-> CopyQuestions(state),
                 errors |-> Append(CopyErrors(state),
                     "Need at least 2 documents for multi-context evolution")]
           ELSE [fn |-> "multiContextEvolution", pc |-> "loop", i |-> 0,
                 evolved_questions |-> CopyQuestions(state),
                 errors |-> CopyErrors(state)]
      [] nodes[node] = "reasoningEvolution" ->
           [fn |-> "reasoningEvolution", pc |-> "loop", k |-> 1,
            existingQuestions |-> Slice(CopyQuestions(state), 0, ReasoningCandidates),
            evolved_questions |-> CopyQuestions(state),
            errors |-> CopyErrors(state)]
      [] nodes[node] = "generateAnswers" ->
           [fn |-> "generateAnswers", pc |-> "loop", k |-> 1, question_answers |-> <<>>]
      [] nodes[node] = "retrieveContexts" ->
           [fn |-> "retrieveContexts", pc |-> "loop", question_contexts |-> <<>>]

Includes(seq, x) == \E n \in 1..Len(seq) : seq[n] = x

\* the documents an evolved question refers to, in processed_docs order
SourceDocs(docs, eq) == SelectSeq(docs, LAMBDA doc : Includes(eq.source_document_ids, doc.id))

\* reasoningEvolution: content of the first source document, '' when none
FindSourceContext(docs, eq) ==
    IF SourceDocs(docs, eq) = <<>> THEN << Blank >> ELSE Head(SourceDocs(docs, eq)).content

SeedPositionFirstSeedOnly(docs, d, q) ==
    IF d > Len(docs) THEN [d |-> d, q |-> 1]
    ELSE IF q > 1 THEN [d |-> d + 1, q |-> 1]
    ELSE [d |-> d, q |-> q]

\* the position simpleEvolution's two loops are at, from (d, q) on
RECURSIVE SeedPosition(_, _, _)
SeedPosition(docs, d, q) ==
    IF d > Len(docs) THEN [d |-> d, q |-> 1]
    ELSE IF q > Len(docs[d].initial_questions) THEN SeedPosition(docs, d + 1, 1)
    ELSE [d |-> d, q |-> q]

MaxContexts == 3

RECURSIVE PassagesOf(_, _)
\* retrieveContexts: the three parallel arrays before they are cut
PassagesOf(docs, eq) ==
    IF docs = <<>> THEN [contexts |-> <<>>, relevance_scores |-> <<>>, context_sources |-> <<>>]
    ELSE LET doc == Head(docs)
             rest == PassagesOf(Tail(docs), eq)
             passages == IF Includes(eq.source_document_ids, doc.id)
                         THEN extractRelevantPassages(eq.question, doc.content)
                         ELSE <<>>
         IN [contexts |-> passages \o rest.contexts,
             relevance_scores |-> [n \in 1..Len(passages) |-> "0.8"] \o rest.relevance_scores,
             context_sources |-> [n \in 1..Len(passages) |-> doc.id] \o rest.context_sources]

QuestionContextUncut(docs, eq) ==
    LET all == PassagesOf(docs, eq) IN
    [question_id |-> eq.id,
     contexts |-> Slice(all.contexts, 0, MaxContexts),
     relevance_scores |-> Slice(all.relevance_scores, 0, MaxContexts),
     context_sources |-> all.context_sources]

\* retrieveContexts: one entry, the three arrays cut to the top 3
QuestionContextOf(docs, eq) ==
    LET all == PassagesOf(docs, eq) IN
    [question_id |-> eq.id,
     contexts |-> Slice(all.contexts, 0, MaxContexts),
     relevance_scores |-> Slice(all.relevance_scores, 0, MaxContexts),
     context_sources |-> Slice(all.context_sources, 0, MaxContexts)]

retrieveContextsKeepEmpty(docs, eqs) ==
    [n \in 1..Len(eqs) |-> QuestionContextOf(docs, eqs[n])]

RECURSIVE retrieveContexts(_, _)
\* retrieveContexts: it never waits, the whole loop is one step
retrieveContexts(docs, eqs) ==
    IF eqs = <<>> THEN <<>>
    ELSE (IF PassagesOf(docs, Head(eqs)).contexts # <<>>
          THEN << QuestionContextOf(docs, Head(eqs)) >>
          ELSE <<>>) \o retrieveContexts(docs, Tail(eqs))

\* the stage function has reached its return statement
FrameDone(f, state) ==
    \/ f.pc = "done"
    \/ f.fn = "processDocuments" /\ f.i >= Len(state.documents)
    \/ f.fn = "simpleEvolution" /\ SeedPosition(state.processed_docs, f.d, f.q).d > Len(state.processed_docs)
    \/ f.fn = "multiContextEvolution" /\ f.i >= Len(state.processed_docs)
    \/ f.fn = "reasoningEvolution" /\ f.k > Len(f.existingQuestions)
    \/ f.fn = "generateAnswers" /\ f.k > Len(state.evolved_questions)

\* the partial state a stage function returns
Partial(f) ==
    CASE f.fn = "processDocuments" -> [processed_docs |-> f.processed_docs]
      [] f.fn \in {"simpleEvolution", "multiContextEvolution", "reasoningEvolution"} ->
           [evolved_questions |-> f.evolved_questions, errors |-> f.errors]
      [] f.fn = "generateAnswers" -> [question_answers |-> f.question_answers]
      [] f.fn = "retrieveContexts" -> [question_contexts |-> f.question_contexts]

KindCount(questions, kind) == Len(SelectSeq(questions, LAMBDA e : e.evolution_type = kind))

GenerationResultCountsAnswers(final) ==
    [evolved_questions |-> final.evolved_questions,
     question_answers |-> final.question_answers,
     question_contexts |-> final.question_contexts,
     generation_metadata |->
        [total_questions |-> Len(final.question_answers),
         evolution_types_count |->
            [simple |-> KindCount(final.evolved_questions, "simple"),
             multi_context |-> KindCount(final.evolved_questions, "multi_context"),
             reasoning |-> KindCount(final.evolved_questions, "reasoning")],
         processing_errors |-> final.errors]]

GenerationResultCountsErrors(final) ==
    [evolved_questions |-> final.evolved_questions,
     question_answers |-> final.question_answers,
     question_contexts |-> final.question_contexts,
     generation_metadata |->
        [total_questions |-> Len(final.errors),
         evolution_types_count |->
            [simple |-> KindCount(final.evolved_questions, "simple"),
             multi_context |-> KindCount(final.evolved_questions, "multi_context"),
             reasoning |-> KindCount(final.evolved_questions, "reasoning")],
         processing_errors |-> final.errors]]

\* run: the GenerationResult built from the final state
GenerationResult(final) ==
    [evolved_questions |-> final.evolved_questions,
     question_answers |-> final.question_answers,
     question_contexts |-> final.question_contexts,
     generation_metadata |->
        [total_questions |-> Len(final.evolved_questions),
         evolution_types_count |->
            [simple |-> Len(SelectSeq(final.evolved_questions,
                                LAMBDA e : e.evolution_type = "simple")),
             multi_context |-> Len(SelectSeq(final.evolved_questions,
                                LAMBDA e : e.evolution_type = "multi_context")),
             reasoning |-> Len(SelectSeq(final.evolved_questions,
                                LAMBDA e : e.evolution_type = "reasoning"))],
         processing_errors |-> final.errors]]

\* ------------------------------------------------------- thrown values
\* nothing has been caught
NoError == [caught |-> FALSE]

\* new Error(message); a message is the sequence of its pieces
ErrorOf(message) == [caught |-> TRUE, isError |-> TRUE, message |-> message]

\* a thrown value that is not an Error; text is what String(value) gives
ValueOf(type, text) ==
    [caught |-> TRUE, isError |-> FALSE, type |-> type, text |-> text]

\* invoke: new Error(`Node ${currentNode} not found`)
NodeNotFound(node) == ErrorOf(<< "Node ", node, " not found" >>)

RunCatchUnprefixed(error) ==
    IF error.isError THEN error.message ELSE << "Unknown error" >>

RunCatchStringified(error) ==
    << "Generation failed: " >>
        \o (IF error.isError THEN error.message ELSE error.text)

\* run: catch (error) { throw new Error(`Generation failed: ${...}`) }
RunCatch(error) ==
    << "Generation failed: " >>
        \o (IF error.isError THEN error.message ELSE << "Unknown error" >>)

\* ------------------------------------------------------ the RateLimiter
Identifiers == {"user1", "user2"}

\* no RateLimiter method has been called
NoLimiterCall == [op |-> "none"]

\* new RateLimiter(): requests = new Map()
NoRequests == [id \in Identifiers |-> <<>>]

\* the RateLimiter before any call
LimiterInit ==
    /\ requests = NoRequests
    /\ now = 0
    /\ allowedLog = NoRequests
    /\ lastCall = NoLimiterCall

EvolutionTypes == {"simple", "multi_context", "reasoning"}

\* GenerationConfigSchema: the defaults of maxQuestions and evolutionTypes
DefaultConfig ==
    [maxQuestions |-> 10,
     evolutionTypes |-> << "simple", "multi_context", "reasoning" >>]

\* no response has been sent
NoResponse == [status |-> 0]

\* run() is not called from the route
NoRequest ==
    /\ validatedConfig = DefaultConfig
    /\ response = NoResponse

\* run() has been called once only
NoOtherRun == [status |-> "none"]

\* the object passed to invoke is followed where SimpleGraph is run alone
NotFollowed == [followed |-> FALSE]

\* ------------------------------------------------------------------ Init
\* run(documents) has built initialState and called invoke, which has copied
\* it and is about to look up the start node.
Init ==
    /\ \E n \in 0..MaxDocs : \E documents \in SeqOfLen(Documents, n) :
           currentState = initialState(documents)
    /\ currentNode = startNode
    /\ frame = NoFrame
    /\ script \in SeqOfLen(Responses, ScriptLen)
    /\ calls = 0
    /\ allRejected = TRUE
    /\ uuid = 0
    /\ stageLog = <<>>
    /\ result = Pending
    /\ failedCalls = 0
    /\ awaiting = FALSE
    /\ inFlight = 0
    /\ invokeError = NoError
    /\ graph = [nodes |-> nodes, edges |-> edges, startNode |-> startNode]
    /\ initialObject = NotFollowed
    /\ LimiterInit
    /\ suspended = NoOtherRun
    /\ extracted = <<>>
    /\ NoRequest

Running == result = Pending

\* one TextCompletion call settles
Call(resp) ==
    /\ calls' = calls + 1
    /\ allRejected' = (allRejected /\ resp.rejects)
    /\ failedCalls' = failedCalls + (IF resp.rejects THEN 1 ELSE 0)
    /\ awaiting
    /\ awaiting' = FALSE
    /\ inFlight' = inFlight - 1

\* a loop iteration that makes no call
NoCall ==
    /\ ~awaiting
    /\ UNCHANGED << calls, allRejected, failedCalls, awaiting, inFlight >>

\* the loop iteration a stage function is at makes a TextCompletion call
AtCallSite(f, state) ==
    CASE f.fn \in {"processDocuments", "simpleEvolution"} -> TRUE
      [] f.fn = "multiContextEvolution" ->
           /\ f.i + 1 < Min(f.i + 2, Len(state.processed_docs))
           /\ Len(state.processed_docs[f.i + 1].initial_questions) > 0
      [] f.fn = "reasoningEvolution" ->
           ContentLength(FindSourceContext(state.processed_docs,
                                           f.existingQuestions[f.k])) > 0
      [] f.fn = "generateAnswers" ->
           Len(SourceDocs(state.processed_docs, state.evolved_questions[f.k])) > 0
      [] OTHER -> FALSE

CallNotAwaited == FALSE

\* await: the function that issued the call is suspended until it settles
CallAwaited == TRUE

\* --------------------------------------------------------------- actions
\* invoke: look the node up and call its function; an unregistered node
\* throws, and run() rethrows it wrapped
StageEnter ==
    /\ Running
    /\ currentNode # "END"
    /\ frame = NoFrame
    /\ IF currentNode \in DOMAIN nodes
       THEN /\ frame' = NewFrame(currentNode, currentState)
            /\ stageLog' = Append(stageLog, currentNode)
            /\ UNCHANGED << result, invokeError >>
       ELSE /\ invokeError' = NodeNotFound(currentNode)
            /\ result' = [status |-> "thrown",
                          message |-> RunCatch(NodeNotFound(currentNode))]
            /\ UNCHANGED << frame, stageLog >>
    /\ UNCHANGED << currentState, currentNode, script, calls, allRejected, failedCalls, awaiting, inFlight, uuid >>
    /\ UNCHANGED elsewhere

\* a stage function calls the TextCompletion and waits for it to settle
IssueCall ==
    /\ Running
    /\ frame # NoFrame
    /\ ~FrameDone(frame, currentState)
    /\ ~awaiting
    /\ AtCallSite(frame, currentState)
    /\ awaiting' = CallAwaited
    /\ inFlight' = inFlight + 1
    /\ UNCHANGED << currentState, currentNode, frame, script, calls, allRejected,
                    failedCalls, uuid, stageLog, result >>
    /\ UNCHANGED << invokeError, elsewhere >>

\* processDocuments: one iteration of the loop over state.documents
ProcessDocumentsStep ==
    /\ Running
    /\ frame.fn = "processDocuments"
    /\ ~FrameDone(frame, currentState)
    /\ LET doc == currentState.documents[frame.i + 1]
           resp == NextResponse
           questions == extractInitialQuestions(doc.pageContent, resp)
       IN /\ Call(resp)
          /\ IF questions.threw
             THEN /\ currentState' = [currentState EXCEPT !.errors =
                                         Append(@, "Document processing error")]
                  /\ frame' = [frame EXCEPT !.i = @ + 1]
             ELSE /\ frame' = [frame EXCEPT
                                 !.i = @ + 1,
                                 !.processed_docs = Append(@,
                                     [id |-> DocId(frame.i),
                                      content |-> doc.pageContent,
                                      metadata |-> doc.metadata,
                                      initial_questions |-> questions.value])]
                  /\ UNCHANGED currentState
    /\ UNCHANGED << currentNode, script, uuid, stageLog, result >>
    /\ UNCHANGED << invokeError, elsewhere >>

EvolvedQuestionSourcesReversed(id, text, kind, score, sources, original) ==
    [id |-> id,
     question |-> text,
     evolution_type |-> kind,
     complexity_score |-> score,
     source_document_ids |-> [n \in 1..Len(sources) |-> sources[Len(sources) + 1 - n]],
     metadata |-> [original_question |-> original,
                   requires_multiple_contexts |-> (kind = "multi_context"),
                   requires_reasoning |-> (kind = "reasoning")]]

EvolvedQuestionWithoutSources(id, text, kind, score, sources, original) ==
    [id |-> id,
     question |-> text,
     evolution_type |-> kind,
     complexity_score |-> score,
     source_document_ids |-> <<>>,
     metadata |-> [original_question |-> original,
                   requires_multiple_contexts |-> (kind = "multi_context"),
                   requires_reasoning |-> (kind = "reasoning")]]

EvolvedQuestionScoredById(id, text, kind, score, sources, original) ==
    [id |-> id,
     question |-> text,
     evolution_type |-> kind,
     complexity_score |-> id,
     source_document_ids |-> sources,
     metadata |-> [original_question |-> original,
                   requires_multiple_contexts |-> (kind = "multi_context"),
                   requires_reasoning |-> (kind = "reasoning")]]

\* an EvolvedQuestion; uuidv4() is the next unused number
EvolvedQuestion(id, text, kind, score, sources, original) ==
    [id |-> id,
     question |-> text,
     evolution_type |-> kind,
     complexity_score |-> score,
     source_document_ids |-> sources,
     metadata |-> [original_question |-> original,
                   requires_multiple_contexts |-> (kind = "multi_context"),
                   requires_reasoning |-> (kind = "reasoning")]]

SimpleScore == 5

MultiContextScore == 7

ReasoningScore == 8

\* simpleEvolution: one iteration of the inner loop (one seed question)
SimpleEvolutionStep ==
    /\ Running
    /\ frame.fn = "simpleEvolution"
    /\ ~FrameDone(frame, currentState)
    /\ LET pos == SeedPosition(currentState.processed_docs, frame.d, frame.q)
           doc == currentState.processed_docs[pos.d]
           question == doc.initial_questions[pos.q]
           resp == NextResponse
           evolved == evolveQuestionSimple(question, doc.content, resp)
       IN /\ Call(resp)
          /\ IF evolved.threw
             THEN /\ frame' = [frame EXCEPT !.d = pos.d, !.q = pos.q + 1,
                                  !.errors = Append(@, "Simple evolution error")]
                  /\ UNCHANGED uuid
             ELSE IF Truthy(evolved.value)
             THEN /\ frame' = [frame EXCEPT !.d = pos.d, !.q = pos.q + 1,
                                  !.evolved_questions = Append(@,
                                      EvolvedQuestion(uuid + 1, evolved.value.text, "simple",
                                          SimpleScore, <<doc.id>>, question))]
                  /\ uuid' = uuid + 1
             ELSE /\ frame' = [frame EXCEPT !.d = pos.d, !.q = pos.q + 1]
                  /\ UNCHANGED uuid
    /\ UNCHANGED << currentState, currentNode, script, stageLog, result >>
    /\ UNCHANGED << invokeError, elsewhere >>

\* multiContextEvolution: one iteration of the outer loop; the inner loop
\* runs for j = i + 1 only, and not at all for the last document
MultiContextStep ==
    /\ Running
    /\ frame.fn = "multiContextEvolution"
    /\ ~FrameDone(frame, currentState)
    /\ LET docs == currentState.processed_docs
           i == frame.i
           j == i + 1
       IN IF AtCallSite(frame, currentState)
          THEN LET doc1 == docs[i + 1]
                   doc2 == docs[j + 1]
                   resp == NextResponse
                   evolved == evolveQuestionMultiContext(doc1.initial_questions[1],
                                  doc1.content, doc2.content, resp)
               IN /\ Call(resp)
                  /\ IF evolved.threw
                     THEN /\ frame' = [frame EXCEPT !.i = @ + 1,
                                  !.errors = Append(@, "Multi-context evolution error")]
                          /\ UNCHANGED uuid
                     ELSE IF Truthy(evolved.value)
                     THEN /\ frame' = [frame EXCEPT !.i = @ + 1,
                                  !.evolved_questions = Append(@,
                                      EvolvedQuestion(uuid + 1, evolved.value.text,
                                          "multi_context", MultiContextScore,
                                          <<doc1.id, doc2.id>>, doc1.initial_questions[1]))]
                          /\ uuid' = uuid + 1
                     ELSE /\ frame' = [frame EXCEPT !.i = @ + 1]
                          /\ UNCHANGED uuid
          ELSE /\ frame' = [frame EXCEPT !.i = @ + 1]
               /\ NoCall
               /\ UNCHANGED uuid
    /\ UNCHANGED << currentState, currentNode, script, stageLog, result >>
    /\ UNCHANGED << invokeError, elsewhere >>

\* reasoningEvolution: one iteration of the loop over existingQuestions
ReasoningStep ==
    /\ Running
    /\ frame.fn = "reasoningEvolution"
    /\ ~FrameDone(frame, currentState)
    /\ LET eq == frame.existingQuestions[frame.k]
           sourceContext == FindSourceContext(currentState.processed_docs, eq)
       IN IF AtCallSite(frame, currentState)
          THEN LET resp == NextResponse
                   evolved == evolveQuestionReasoning(eq.question, sourceContext, resp)
               IN /\ Call(resp)
                  /\ IF evolved.threw
                     THEN /\ frame' = [frame EXCEPT !.k = @ + 1,
                                  !.errors = Append(@, "Reasoning evolution error")]
                          /\ UNCHANGED uuid
                     ELSE IF Truthy(evolved.value)
                     THEN /\ frame' = [frame EXCEPT !.k = @ + 1,
                                  !.evolved_questions = Append(@,
                                      EvolvedQuestion(uuid + 1, evolved.value.text,
                                          "reasoning", ReasoningScore,
                                          eq.source_document_ids, eq.question))]
                          /\ uuid' = uuid + 1
                     ELSE /\ frame' = [frame EXCEPT !.k = @ + 1]
                          /\ UNCHANGED uuid
          ELSE /\ frame' = [frame EXCEPT !.k = @ + 1]
               /\ NoCall
               /\ UNCHANGED uuid
    /\ UNCHANGED << currentState, currentNode, script, stageLog, result >>
    /\ UNCHANGED << invokeError, elsewhere >>

\* generateAnswers: one iteration of the loop over state.evolved_questions
GenerateAnswersStep ==
    /\ Running
    /\ frame.fn = "generateAnswers"
    /\ ~FrameDone(frame, currentState)
    /\ LET eq == currentState.evolved_questions[frame.k]
           sources == SourceDocs(currentState.processed_docs, eq)
           contexts == [n \in 1..Len(sources) |-> sources[n].content]
       IN IF AtCallSite(frame, currentState)
          THEN LET resp == NextResponse
                   answer == generateAnswer(eq.question, contexts, resp)
               IN /\ Call(resp)
                  /\ IF answer.threw
                     THEN /\ currentState' = [currentState EXCEPT !.errors =
                                                 Append(@, "Answer generation error")]
                          /\ frame' = [frame EXCEPT !.k = @ + 1]
                     ELSE IF Truthy(answer.value)
                     THEN /\ frame' = [frame EXCEPT !.k = @ + 1,
                                  !.question_answers = Append(@,
                                      [question_id |-> eq.id,
                                       answer |-> answer.value.text,
                                       confidence_score |-> "0.85",
                                       source_documents |-> eq.source_document_ids])]
                          /\ UNCHANGED currentState
                     ELSE /\ frame' = [frame EXCEPT !.k = @ + 1]
                          /\ UNCHANGED currentState
          ELSE /\ frame' = [frame EXCEPT !.k = @ + 1]
               /\ NoCall
               /\ UNCHANGED currentState
    /\ UNCHANGED << currentNode, script, uuid, stageLog, result >>
    /\ UNCHANGED << invokeError, elsewhere >>

\* retrieveContexts: the whole function, it makes no call
RetrieveContextsStep ==
    /\ Running
    /\ frame.fn = "retrieveContexts"
    /\ frame.pc = "loop"
    /\ frame' = [frame EXCEPT
                   !.pc = "done",
                   !.question_contexts =
                       retrieveContexts(currentState.processed_docs,
                                        currentState.evolved_questions)]
    /\ UNCHANGED << currentState, currentNode, script, calls, allRejected, failedCalls, awaiting, inFlight, uuid,
                    stageLog, result >>
    /\ UNCHANGED << invokeError, elsewhere >>

\* invoke: the stage function has returned; merge its partial state and
\* move to the successor
StageReturn ==
    /\ Running
    /\ frame # NoFrame
    /\ FrameDone(frame, currentState)
    /\ currentState' = Merge(currentState, Partial(frame))
    /\ currentNode' = Successor(currentNode)
    /\ frame' = NoFrame
    /\ UNCHANGED << script, calls, allRejected, failedCalls, awaiting, inFlight, uuid, stageLog, result >>
    /\ UNCHANGED << invokeError, elsewhere >>

\* run: invoke has returned the final state
RunReturn ==
    /\ Running
    /\ currentNode \in {"", "END"}
    /\ frame = NoFrame
    /\ result' = [status |-> "returned", value |-> GenerationResult(currentState)]
    /\ UNCHANGED << currentState, currentNode, frame, script, calls, allRejected,
                    failedCalls, awaiting, inFlight, uuid, stageLog >>
    /\ UNCHANGED << invokeError, elsewhere >>

Next ==
    \/ StageEnter
    \/ IssueCall
    \/ ProcessDocumentsStep
    \/ SimpleEvolutionStep
    \/ MultiContextStep
    \/ ReasoningStep
    \/ GenerateAnswersStep
    \/ RetrieveContextsStep
    \/ StageReturn
    \/ RunReturn

Spec == Init /\ [][Next]_vars

\* ------------------------------------------------- SimpleGraph by itself
\* run() over a SimpleGraph that addNode, addEdge and setStart have built in
\* any way, its node functions being test doubles that return a partial
\* state or throw.
MaxSteps == 3

GraphNames == {"a", "b"}

\* a name that addNode has not been given
Ghost == "ghost"

\* a node function that resolves with a partial state
Returns(partial) == [throws |-> FALSE, partial |-> partial]

\* a node function that rejects
Throws(error) == [throws |-> TRUE, error |-> error]

Partials ==
    { [k \in {} |-> 0],
      [errors |-> << "first" >>],
      [errors |-> << "second" >>, extra |-> 1],
      [evolved_questions |->
          << EvolvedQuestion(1, << "q" >>, "simple", SimpleScore,
                             << DocId(0) >>, << "s" >>) >>] }

ThrownErrors == { ErrorOf(<< "Processing failed" >>), ErrorOf(<<>>) }

ThrownValues ==
    { ValueOf("string", << "Unknown error" >>),
      ValueOf("string", << "Processing failed" >>),
      ValueOf("number", << "42" >>) }

NodeFunctions ==
    {Returns(p) : p \in Partials}
        \cup {Throws(e) : e \in ThrownErrors \cup ThrownValues}

\* what addEdge can name as a target
Targets == GraphNames \cup {"END", Ghost, ""}

\* every SimpleGraph over GraphNames; startNode is '' until setStart
Graphs ==
    { [nodes |-> n, edges |-> e, startNode |-> st] :
        n \in UNION {[S -> NodeFunctions] : S \in SUBSET GraphNames},
        e \in UNION {[S -> Targets] : S \in SUBSET GraphNames},
        st \in GraphNames \cup {"", Ghost, "END"} }

\* run() has built initialState and called invoke on the graph, which has
\* copied it
GraphInit ==
    /\ graph \in Graphs
    /\ initialObject = initialState(<<>>)
    /\ currentState = initialState(<<>>)
    /\ currentNode = graph.startNode
    /\ frame = NoFrame
    /\ script = [i \in 1..ScriptLen |-> Rejected]
    /\ calls = 0
    /\ allRejected = TRUE
    /\ uuid = 0
    /\ stageLog = <<>>
    /\ result = Pending
    /\ failedCalls = 0
    /\ awaiting = FALSE
    /\ inFlight = 0
    /\ invokeError = NoError
    /\ LimiterInit
    /\ suspended = NoOtherRun
    /\ extracted = <<>>
    /\ NoRequest

\* invoke: while (currentNode && currentNode !== 'END')
Looping ==
    /\ Running
    /\ currentNode \notin {"", "END"}
    /\ Len(stageLog) < MaxSteps

\* the variables that a step of invoke on its own leaves alone
graphFrame ==
    << frame, script, calls, allRejected, failedCalls, awaiting, inFlight, uuid, graph,
       initialObject, requests, now, allowedLog, lastCall, suspended, extracted,
       validatedConfig, response >>

\* invoke: the current node has no function; run() rethrows wrapped
NodeMissing ==
    /\ Looping
    /\ currentNode \notin DOMAIN graph.nodes
    /\ invokeError' = NodeNotFound(currentNode)
    /\ result' = [status |-> "thrown", message |-> RunCatch(NodeNotFound(currentNode))]
    /\ UNCHANGED << currentState, currentNode, stageLog >>
    /\ UNCHANGED graphFrame

\* invoke: the node function rejects; run() rethrows wrapped
NodeThrows ==
    /\ Looping
    /\ currentNode \in DOMAIN graph.nodes
    /\ graph.nodes[currentNode].throws
    /\ stageLog' = Append(stageLog, currentNode)
    /\ invokeError' = graph.nodes[currentNode].error
    /\ result' = [status |-> "thrown",
                  message |-> RunCatch(graph.nodes[currentNode].error)]
    /\ UNCHANGED << currentState, currentNode >>
    /\ UNCHANGED graphFrame

\* invoke: the node function resolves; merge and move to the successor
NodeReturns ==
    /\ Looping
    /\ currentNode \in DOMAIN graph.nodes
    /\ ~graph.nodes[currentNode].throws
    /\ stageLog' = Append(stageLog, currentNode)
    /\ currentState' = Merge(currentState, graph.nodes[currentNode].partial)
    /\ currentNode' = SuccessorIn(graph.edges, currentNode)
    /\ UNCHANGED << result, invokeError >>
    /\ UNCHANGED graphFrame

GraphNext ==
    \/ NodeMissing
    \/ NodeThrows
    \/ NodeReturns
    \/ RunReturn

GraphSpec == GraphInit /\ [][GraphNext]_vars

\* ------------------------------------------------------ the RateLimiter
\* new RateLimiter(maxRequests, windowMs), called for two identifiers while
\* the clock runs from 0 to MaxTime
maxRequests == 2

windowMs == 3

MaxTime == 5

Max(a, b) == IF a >= b THEN a ELSE b

\* requests.filter(time => now - time < this.windowMs)
ValidRequests(times, t) ==
    SelectSeq(times, LAMBDA time : t - time < windowMs)

isAllowedOneMore(reqs, identifier, t) ==
    LET validRequests == ValidRequests(reqs[identifier], t)
    IN IF Len(validRequests) > maxRequests
       THEN [returns |-> FALSE, requests |-> reqs]
       ELSE [returns |-> TRUE,
             requests |-> [reqs EXCEPT ![identifier] = Append(validRequests, t)]]

isAllowedRecordsDenied(reqs, identifier, t) ==
    LET validRequests == ValidRequests(reqs[identifier], t)
    IN [returns |-> Len(validRequests) < maxRequests,
        requests |-> [reqs EXCEPT ![identifier] = Append(validRequests, t)]]

isAllowedSharedList(reqs, identifier, t) ==
    LET validRequests == ValidRequests(reqs[identifier], t)
    IN IF Len(validRequests) >= maxRequests
       THEN [returns |-> FALSE, requests |-> reqs]
       ELSE [returns |-> TRUE,
             requests |-> [id \in DOMAIN reqs |-> Append(validRequests, t)]]

\* RateLimiter.isAllowed at time t: what it returns and the map it leaves
isAllowed(reqs, identifier, t) ==
    LET validRequests == ValidRequests(reqs[identifier], t)
    IN IF Len(validRequests) >= maxRequests
       THEN [returns |-> FALSE, requests |-> reqs]
       ELSE [returns |-> TRUE,
             requests |-> [reqs EXCEPT ![identifier] = Append(validRequests, t)]]

getRemainingRequestsUnfiltered(reqs, identifier, t) ==
    Max(0, maxRequests - Len(reqs[identifier]))

\* RateLimiter.getRemainingRequests at time t
getRemainingRequests(reqs, identifier, t) ==
    Max(0, maxRequests - Len(ValidRequests(reqs[identifier], t)))

\* a RateLimiter has been constructed; no pipeline run is in progress
LimiterSpecInit ==
    /\ LimiterInit
    /\ currentState = initialState(<<>>)
    /\ currentNode = startNode
    /\ frame = NoFrame
    /\ script = [i \in 1..ScriptLen |-> Rejected]
    /\ calls = 0
    /\ allRejected = TRUE
    /\ uuid = 0
    /\ stageLog = <<>>
    /\ result = Pending
    /\ failedCalls = 0
    /\ awaiting = FALSE
    /\ inFlight = 0
    /\ invokeError = NoError
    /\ graph = [nodes |-> nodes, edges |-> edges, startNode |-> startNode]
    /\ initialObject = NotFollowed
    /\ suspended = NoOtherRun
    /\ extracted = <<>>
    /\ NoRequest

\* the variables the RateLimiter does not touch
limiterFrame ==
    << currentState, currentNode, frame, script, calls, allRejected, uuid,
       stageLog, result, failedCalls, awaiting, inFlight, invokeError, graph,
       initialObject, suspended, extracted, validatedConfig, response >>

\* Date.now() has advanced by a millisecond
Tick ==
    /\ now < MaxTime
    /\ now' = now + 1
    /\ UNCHANGED << requests, allowedLog, lastCall >>
    /\ UNCHANGED limiterFrame

\* a call of isAllowed(identifier)
IsAllowedCall ==
    \E identifier \in Identifiers :
        LET call == isAllowed(requests, identifier, now)
        IN /\ requests' = call.requests
           /\ allowedLog' = IF call.returns
                            THEN [allowedLog EXCEPT ![identifier] = Append(@, now)]
                            ELSE allowedLog
           /\ lastCall' = [op |-> "isAllowed", identifier |-> identifier,
                           time |-> now, returned |-> call.returns]
           /\ UNCHANGED now
           /\ UNCHANGED limiterFrame

\* a call of getRemainingRequests(identifier)
GetRemainingCall ==
    \E identifier \in Identifiers :
        /\ lastCall' = [op |-> "getRemainingRequests", identifier |-> identifier,
                        time |-> now,
                        returned |-> getRemainingRequests(requests, identifier, now)]
        /\ UNCHANGED << requests, now, allowedLog >>
        /\ UNCHANGED limiterFrame

LimiterNext ==
    \/ Tick
    \/ IsAllowedCall
    \/ GetRemainingCall

LimiterSpec == LimiterSpecInit /\ [][LimiterNext]_vars

\* ----------------------------------------------- two runs interleaved
\* Two calls of run() in one process. Each call has its own initialState,
\* its own invoke locals and its own stage function locals; the pipeline's
\* fields llm and graph are only read, so two calls on one instance and on
\* two instances differ in nothing. What the calls share is uuidv4(). The
\* variables of Spec hold the run that is executing, suspended holds the
\* other one, and control passes only where the executing run awaits.

\* answers without a question mark, of which every third call rejects
ScriptFirst ==
    [k \in 1..ScriptLen |-> IF k % 3 = 0 THEN Rejected ELSE Resolved(<<"b", ".">>)]

\* other answers, of which another call in three rejects
ScriptSecond ==
    [k \in 1..ScriptLen |-> IF k % 3 = 2 THEN Rejected ELSE Resolved(<<"c", ".">>)]

PairScripts == { ScriptFirst, ScriptSecond }

Upload(content) == [pageContent |-> content, metadata |-> "upload"]

\* one document, which makes multiContextEvolution report an error, and two
PairDocuments ==
    { << Upload(ContentParagraphs) >>,
      << Upload(ContentTiny), Upload(ContentLines) >> }

\* what a caller hands to one run: its documents and what the TextCompletion
\* answers to its prompts
PairInputs == [documents : PairDocuments, script : PairScripts]

\* the variables of a run() that has been called and has not executed yet
StartOfRun(input) ==
    [status |-> "suspended",
     currentState |-> initialState(input.documents),
     currentNode |-> startNode,
     frame |-> NoFrame,
     script |-> input.script,
     calls |-> 0,
     allRejected |-> TRUE,
     stageLog |-> <<>>,
     result |-> Pending,
     failedCalls |-> 0,
     awaiting |-> FALSE,
     inFlight |-> 0,
     invokeError |-> NoError]

\* the variables of the run that is executing
Executing ==
    [status |-> "suspended",
     currentState |-> currentState,
     currentNode |-> currentNode,
     frame |-> frame,
     script |-> script,
     calls |-> calls,
     allRejected |-> allRejected,
     stageLog |-> stageLog,
     result |-> result,
     failedCalls |-> failedCalls,
     awaiting |-> awaiting,
     inFlight |-> inFlight,
     invokeError |-> invokeError]

ResumeSharedErrors(own, other) ==
    [own EXCEPT !.currentState.errors = other.currentState.errors]

\* a run that resumes finds its own variables as it left them: run() builds
\* initialState, and with it the errors array, anew at every call
Resume(own, other) == own

PairInit ==
    /\ \E first \in PairInputs, second \in PairInputs :
          /\ currentState = initialState(first.documents)
          /\ script = first.script
          /\ suspended = StartOfRun(second)
    /\ currentNode = startNode
    /\ frame = NoFrame
    /\ calls = 0
    /\ allRejected = TRUE
    /\ uuid = 0
    /\ stageLog = <<>>
    /\ result = Pending
    /\ failedCalls = 0
    /\ awaiting = FALSE
    /\ inFlight = 0
    /\ invokeError = NoError
    /\ graph = [nodes |-> nodes, edges |-> edges, startNode |-> startNode]
    /\ initialObject = NotFollowed
    /\ LimiterInit
    /\ extracted = <<>>
    /\ NoRequest

\* the executing run is at an await: of a TextCompletion call, of the stage
\* function invoke has called, of invoke itself; or it has ended
AtAwait ==
    \/ awaiting
    \/ frame # NoFrame /\ FrameDone(frame, currentState)
    \/ frame = NoFrame /\ currentNode \in {"", "END"}
    \/ ~Running

\* the executing run waits and the other run goes on from where it waited
Switch ==
    /\ AtAwait
    /\ suspended.status = "suspended"
    /\ suspended' = Executing
    /\ LET own == Resume(suspended, Executing)
       IN /\ currentState' = own.currentState
          /\ currentNode' = own.currentNode
          /\ frame' = own.frame
          /\ script' = own.script
          /\ calls' = own.calls
          /\ allRejected' = own.allRejected
          /\ stageLog' = own.stageLog
          /\ result' = own.result
          /\ failedCalls' = own.failedCalls
          /\ awaiting' = own.awaiting
          /\ inFlight' = own.inFlight
          /\ invokeError' = own.invokeError
    /\ UNCHANGED << uuid, graph, initialObject, requests, now, allowedLog, lastCall,
                    extracted, validatedConfig, response >>

PairNext ==
    \/ Switch
    \/ StageEnter
    \/ IssueCall
    \/ ProcessDocumentsStep
    \/ SimpleEvolutionStep
    \/ MultiContextStep
    \/ ReasoningStep
    \/ GenerateAnswersStep
    \/ RetrieveContextsStep
    \/ StageReturn
    \/ RunReturn

PairSpec == PairInit /\ [][PairNext]_vars

\* ------------------------------------------ extractRelevantPassages alone
\* extractRelevantPassages called on contents that take it through each of
\* its branches, with different questions, one call after another.
MaxExtracts == 2

\* 41 lines of 45 characters with blank lines between: no paragraph, more
\* than three chunks of lines
ContentManyLines == [i \in 1..81 |-> IF i % 2 = 1 THEN Line(45) ELSE Blank]

\* lines of 15 characters with blank lines between: no paragraph and no
\* line long enough for a chunk, 117 characters in all
ContentShortLines == [i \in 1..13 |-> IF i % 2 = 1 THEN Line(15) ELSE Blank]

\* header lines only: 1802 characters, 182 characters and 60 characters
ContentLongHeaders == << MetaLine(600), MetaLine(600), MetaLine(600) >>

ContentHeaders == << MetaLine(60), MetaLine(60), MetaLine(60) >>

ContentHeader == << MetaLine(60) >>

ExtractContents ==
    Contents \cup { ContentManyLines, ContentShortLines, ContentLongHeaders,
                    ContentHeaders, ContentHeader }

\* eq.question
ExtractQuestions == { << "a", "?" >>, << "b", "." >> }

ExtractorInit ==
    /\ extracted = <<>>
    /\ currentState = initialState(<<>>)
    /\ currentNode = startNode
    /\ frame = NoFrame
    /\ script = [i \in 1..ScriptLen |-> Rejected]
    /\ calls = 0
    /\ allRejected = TRUE
    /\ uuid = 0
    /\ stageLog = <<>>
    /\ result = Pending
    /\ failedCalls = 0
    /\ awaiting = FALSE
    /\ inFlight = 0
    /\ invokeError = NoError
    /\ graph = [nodes |-> nodes, edges |-> edges, startNode |-> startNode]
    /\ initialObject = NotFollowed
    /\ LimiterInit
    /\ suspended = NoOtherRun
    /\ NoRequest

\* the variables extractRelevantPassages does not touch
extractorFrame ==
    << currentState, currentNode, frame, script, calls, allRejected, uuid,
       stageLog, result, failedCalls, awaiting, inFlight, invokeError, graph,
       initialObject, requests, now, allowedLog, lastCall, suspended,
       validatedConfig, response >>

\* one call of extractRelevantPassages(question, content)
ExtractCall ==
    /\ Len(extracted) < MaxExtracts
    /\ \E question \in ExtractQuestions, content \in ExtractContents :
          extracted' = Append(extracted,
                          [question |-> question,
                           content |-> content,
                           passages |-> extractRelevantPassages(question, content)])
    /\ UNCHANGED extractorFrame

ExtractorNext == ExtractCall

ExtractorSpec == ExtractorInit /\ [][ExtractorNext]_vars

\* ------------------------------------------------- POST /api/generate
\* The request has passed the rate limiter, its configuration and its
\* documents have been validated, and the handler has called run(documents);
\* when run returns the handler applies the configuration to the result and
\* sends it.
MaxListedTypes == 3

\* maxQuestions: z.number().min(1).max(50)
QuestionLimits == {1, 2, 10}

\* evolutionTypes: z.array(z.enum([...])), any length, repetitions allowed
TypeLists == UNION { SeqOfLen(EvolutionTypes, n) : n \in 0..MaxListedTypes }

Configs == [maxQuestions : QuestionLimits, evolutionTypes : TypeLists]

\* DocumentContentSchema: content of at least 100 characters
MinContentLength == 100

ValidDocuments == { d \in Documents : ContentLength(d.pageContent) >= MinContentLength }

RouteScripts == { ScriptFirst, ScriptSecond }

RouteInit ==
    /\ \E n \in 1..MaxDocs : \E documents \in SeqOfLen(ValidDocuments, n) :
           currentState = initialState(documents)
    /\ script \in RouteScripts
    /\ validatedConfig \in Configs
    /\ response = NoResponse
    /\ currentNode = startNode
    /\ frame = NoFrame
    /\ calls = 0
    /\ allRejected = TRUE
    /\ uuid = 0
    /\ stageLog = <<>>
    /\ result = Pending
    /\ failedCalls = 0
    /\ awaiting = FALSE
    /\ inFlight = 0
    /\ invokeError = NoError
    /\ graph = [nodes |-> nodes, edges |-> edges, startNode |-> startNode]
    /\ initialObject = NotFollowed
    /\ LimiterInit
    /\ suspended = NoOtherRun
    /\ extracted = <<>>

\* new Set(questions.map(q => q.id))
IdsOf(questions) == {questions[k].id : k \in 1..Len(questions)}

\* the result cut down to the given questions: the answers and contexts of
\* these questions, and the counts taken again
Narrowed(results, questions) ==
    [results EXCEPT
        !.evolved_questions = questions,
        !.question_answers =
            SelectSeq(@, LAMBDA qa : qa.question_id \in IdsOf(questions)),
        !.question_contexts =
            SelectSeq(@, LAMBDA qc : qc.question_id \in IdsOf(questions)),
        !.generation_metadata =
            [@ EXCEPT
                !.total_questions = Len(questions),
                !.evolution_types_count =
                    [simple |-> KindCount(questions, "simple"),
                     multi_context |-> KindCount(questions, "multi_context"),
                     reasoning |-> KindCount(questions, "reasoning")]]]

\* Limit number of questions if specified
LimitQuestions(config, results) ==
    IF config.maxQuestions < Len(results.evolved_questions)
    THEN Narrowed(results, Slice(results.evolved_questions, 0, config.maxQuestions))
    ELSE results

\* evolutionTypes.length < 3
AllTypesListed == 3

\* Filter by evolution types if specified
FilterTypes(config, filteredResults) ==
    IF Len(config.evolutionTypes) < AllTypesListed
    THEN Narrowed(filteredResults,
                  SelectSeq(filteredResults.evolved_questions,
                            LAMBDA q : Includes(config.evolutionTypes, q.evolution_type)))
    ELSE filteredResults

\* POST: run has returned; apply the configuration filters and return
Respond ==
    /\ result.status = "returned"
    /\ response = NoResponse
    /\ response' = [status |-> 200,
                    body |-> FilterTypes(validatedConfig,
                                 LimitQuestions(validatedConfig, result.value))]
    /\ UNCHANGED << currentState, currentNode, frame, script, calls, allRejected,
                    uuid, stageLog, result, failedCalls, awaiting, inFlight,
                    invokeError, graph, initialObject, requests, now, allowedLog,
                    lastCall, suspended, extracted, validatedConfig >>

RouteNext ==
    \/ StageEnter
    \/ IssueCall
    \/ ProcessDocumentsStep
    \/ SimpleEvolutionStep
    \/ MultiContextStep
    \/ ReasoningStep
    \/ GenerateAnswersStep
    \/ RetrieveContextsStep
    \/ StageReturn
    \/ RunReturn
    \/ Respond

RouteSpec == RouteInit /\ [][RouteNext]_vars

\* ---------------------------------------------------------------- claims
StageOrder ==
    << "process_documents", "simple_evolution", "multi_context_evolution",
       "reasoning_evolution", "generate_answers", "retrieve_contexts" >>

Returned == result.status = "returned"

NeedTwoDocuments == "Need at least 2 documents for multi-context evolution"

\* every list of evolved questions that exists somewhere in a state
QuestionLists ==
    {currentState.evolved_questions}
    \cup (IF "evolved_questions" \in DOMAIN frame THEN {frame.evolved_questions} ELSE {})
    \cup (IF Returned THEN {result.value.evolved_questions} ELSE {})

\* every list of question contexts that exists somewhere in a state
ContextLists ==
    {currentState.question_contexts}
    \cup (IF "question_contexts" \in DOMAIN frame THEN {frame.question_contexts} ELSE {})
    \cup (IF Returned THEN {result.value.question_contexts} ELSE {})

\* every list of processed documents that exists somewhere in a state
ProcessedLists ==
    {currentState.processed_docs}
    \cup (IF "processed_docs" \in DOMAIN frame THEN {frame.processed_docs} ELSE {})

\* the stages called so far are an initial part of the fixed order, the
\* running stage is the last one called, and the fields that later stages
\* write are still empty while a stage runs
StagesInOrder ==
    /\ IsPrefix(stageLog, StageOrder)
    /\ frame # NoFrame => stageLog # <<>> /\ stageLog[Len(stageLog)] = currentNode
    /\ frame = NoFrame /\ currentNode # "END" /\ result = Pending
          => Len(stageLog) < Len(StageOrder) /\ StageOrder[Len(stageLog) + 1] = currentNode
    /\ currentNode = "END" \/ Returned => stageLog = StageOrder
    /\ currentNode = "process_documents"
          => currentState.processed_docs = <<>> /\ currentState.evolved_questions = <<>>
    /\ currentNode \in {"process_documents", "simple_evolution",
                        "multi_context_evolution", "reasoning_evolution",
                        "generate_answers"}
          => currentState.question_answers = <<>>
    /\ currentNode # "END" => currentState.question_contexts = <<>>

\* how far a stage function has got in its loops
FramePosition ==
    CASE frame.fn = "processDocuments" -> frame.i
      [] frame.fn = "simpleEvolution" -> frame.d * (MaxSeedQuestions + 2) + frame.q
      [] frame.fn = "multiContextEvolution" -> frame.i
      [] frame.fn \in {"reasoningEvolution", "generateAnswers"} -> frame.k
      [] frame.fn = "retrieveContexts" -> IF frame.pc = "done" THEN 1 ELSE 0
      [] OTHER -> 0

\* some action can be taken: the guards of the actions of Next
CanStep ==
    /\ Running
    /\ \/ frame = NoFrame
       \/ frame # NoFrame /\ FrameDone(frame, currentState)
       \/ /\ ~FrameDone(frame, currentState)
          /\ frame.fn \in {"processDocuments", "simpleEvolution", "multiContextEvolution",
                           "reasoningEvolution", "generateAnswers"}
       \/ frame.fn = "retrieveContexts" /\ frame.pc = "loop"

\* a number that every step of a run increases: stages called, whether the
\* last one has returned, its position, and whether run() has ended
Rank ==
    ((2 * Len(stageLog) + (IF frame = NoFrame THEN 1 ELSE 0)) * 1000
        + 2 * FramePosition + (IF awaiting THEN 1 ELSE 0)) * 2
        + (IF result = Pending THEN 0 ELSE 1)

\* C1: one run() calls the six stages one after the other, each exactly
\* once, in the order process_documents, simple_evolution,
\* multi_context_evolution, reasoning_evolution, generate_answers,
\* retrieve_contexts; no stage sees what a later stage writes; and the run
\* comes to an end with a result (a run that has not ended can always take
\* a step, and every step increases Rank, which is bounded).
C1_SixStagesInOrder ==
    /\ [](StagesInOrder /\ (result = Pending => CanStep))
    /\ [][Rank' > Rank]_vars

C1_Witness ==
    /\ Returned
    /\ stageLog = StageOrder
    /\ Len(currentState.documents) = 2
    /\ Len(result.value.question_answers) > 0
    /\ Len(result.value.question_contexts) > 0

\* C2: errors only grows: every step leaves the running state's errors, and
\* the copy a stage works on, with the previous value as a prefix; a stage's
\* copy extends the running state's; the stages that return no errors key
\* leave it as it was.
C2_ErrorsAppendOnly ==
    [][ /\ IsPrefix(currentState.errors, currentState.errors')
        /\ ("errors" \in DOMAIN frame /\ "errors" \in DOMAIN frame')
              => IsPrefix(frame.errors, frame.errors')
        /\ "errors" \in DOMAIN frame' => IsPrefix(currentState.errors', frame.errors')
        /\ (frame.fn \in {"processDocuments", "generateAnswers", "retrieveContexts"}
            /\ frame' = NoFrame)
              => currentState.errors' = currentState.errors
        /\ result' # Pending /\ result'.status = "returned"
              => result'.value.generation_metadata.processing_errors = currentState.errors
      ]_vars

C2_Witness ==
    /\ Returned
    /\ Len(currentState.processed_docs) = 1
    /\ Len(currentState.evolved_questions) > 1
    /\ result.value.generation_metadata.processing_errors = << NeedTwoDocuments >>

\* C3: evolvedQuestions only grows: each evolution stage writes a list that
\* has the list it received as a prefix, and generate_answers and
\* retrieve_contexts leave the list unchanged.
C3_QuestionsAppendOnly ==
    [][ /\ IsPrefix(currentState.evolved_questions, currentState.evolved_questions')
        /\ ("evolved_questions" \in DOMAIN frame /\ "evolved_questions" \in DOMAIN frame')
              => IsPrefix(frame.evolved_questions, frame.evolved_questions')
        /\ "evolved_questions" \in DOMAIN frame'
              => IsPrefix(currentState.evolved_questions', frame.evolved_questions')
        /\ currentNode \in {"generate_answers", "retrieve_contexts"}
              => currentState.evolved_questions' = currentState.evolved_questions
      ]_vars

C3_Witness ==
    /\ currentNode = "END"
    /\ \E a, b, c \in 1..Len(currentState.evolved_questions) :
          /\ a < b /\ b < c
          /\ currentState.evolved_questions[a].evolution_type = "simple"
          /\ currentState.evolved_questions[b].evolution_type = "multi_context"
          /\ currentState.evolved_questions[c].evolution_type = "reasoning"

\* C4: every evolved question names at least one source document, and every
\* id it names is the id of a processed document.
C4_SourcesAreProcessedDocs ==
    \A questions \in QuestionLists : \A n \in 1..Len(questions) :
        /\ Len(questions[n].source_document_ids) > 0
        /\ \A m \in 1..Len(questions[n].source_document_ids) :
              \E d \in 1..Len(currentState.processed_docs) :
                  currentState.processed_docs[d].id = questions[n].source_document_ids[m]

C4_Witness ==
    /\ Returned
    /\ \E n, m \in 1..Len(result.value.evolved_questions) :
          /\ result.value.evolved_questions[n].evolution_type = "multi_context"
          /\ Len(result.value.evolved_questions[n].source_document_ids) = 2
          /\ result.value.evolved_questions[m].evolution_type = "reasoning"
          /\ result.value.evolved_questions[m].source_document_ids = << <<"doc_", 0>> >>

\* C5: there are never more processed documents than documents, and the
\* k-th processed document (counting from 0) is the k-th document and has
\* the id "doc_" followed by k.
C5_ProcessedDocIds ==
    \A docs \in ProcessedLists :
        /\ Len(docs) <= Len(currentState.documents)
        /\ \A k \in 1..Len(docs) :
              /\ docs[k].id = <<"doc_", k - 1>>
              /\ docs[k].content = currentState.documents[k].pageContent

C5_Witness ==
    /\ Returned
    /\ Len(currentState.documents) = 2
    /\ Len(currentState.processed_docs) = 2
    /\ currentState.processed_docs[2].id = <<"doc_", 1>>

\* the number of entries of a list that are of one kind
CountKind(questions, kind) ==
    Cardinality({n \in 1..Len(questions) : questions[n].evolution_type = kind})

\* C6: in every result, totalQuestions is the number of evolved questions,
\* each of the three counts is the number of questions of that kind, and the
\* three counts add up to totalQuestions.
C6_MetadataCounts ==
    Returned =>
        LET v == result.value
            m == v.generation_metadata
        IN /\ m.total_questions = Len(v.evolved_questions)
           /\ m.evolution_types_count.simple = CountKind(v.evolved_questions, "simple")
           /\ m.evolution_types_count.multi_context = CountKind(v.evolved_questions, "multi_context")
           /\ m.evolution_types_count.reasoning = CountKind(v.evolved_questions, "reasoning")
           /\ m.evolution_types_count.simple + m.evolution_types_count.multi_context
                 + m.evolution_types_count.reasoning = m.total_questions

C6_Witness ==
    /\ Returned
    /\ result.value.generation_metadata.evolution_types_count.simple > 1
    /\ result.value.generation_metadata.evolution_types_count.multi_context = 1
    /\ result.value.generation_metadata.evolution_types_count.reasoning = 1
    /\ Len(result.value.question_answers) < Len(result.value.evolved_questions)

\* C7: when multi_context_evolution runs with exactly one processed
\* document, the state it leaves has the same evolved questions, none of
\* them multi_context, and errors longer by exactly one entry, the message
\* about needing at least 2 documents.
C7_OneDocumentMultiContext ==
    [][ (/\ currentNode = "multi_context_evolution"
         /\ currentNode' # currentNode
         /\ Len(currentState.processed_docs) = 1)
        => /\ currentState.evolved_questions' = currentState.evolved_questions
           /\ CountKind(currentState.evolved_questions', "multi_context") = 0
           /\ currentState.errors' = Append(currentState.errors, NeedTwoDocuments)
           /\ frame.pc = "done"
      ]_vars

C7_Witness ==
    /\ currentNode = "reasoning_evolution"
    /\ Len(currentState.processed_docs) = 1
    /\ Len(currentState.evolved_questions) > 0
    /\ currentState.errors = << NeedTwoDocuments >>

\* C8: in every QuestionContext the arrays contexts, relevanceScores and
\* contextSources have the same length, and that length is at most 3.
C8_ParallelArrays ==
    \A qcs \in ContextLists : \A n \in 1..Len(qcs) :
        /\ Len(qcs[n].contexts) = Len(qcs[n].relevance_scores)
        /\ Len(qcs[n].contexts) = Len(qcs[n].context_sources)
        /\ Len(qcs[n].contexts) <= 3

C8_Witness ==
    /\ Returned
    /\ \E n \in 1..Len(result.value.question_contexts) :
          LET qc == result.value.question_contexts[n] IN
          /\ Len(qc.contexts) = 3
          /\ qc.context_sources[1] # qc.context_sources[3]

\* C9: run([]) ends with a result, not an exception; the result has no
\* evolved questions, no answers and no contexts, totalQuestions is 0, and
\* no TextCompletion call is made.
C9_EmptyDocumentList ==
    Len(currentState.documents) = 0 =>
        /\ calls = 0
        /\ result # Pending =>
              /\ Returned
              /\ result.value.evolved_questions = <<>>
              /\ result.value.question_answers = <<>>
              /\ result.value.question_contexts = <<>>
              /\ result.value.generation_metadata.total_questions = 0

C9_Witness ==
    /\ Returned
    /\ Len(currentState.documents) = 0
    /\ stageLog = StageOrder

WellFormed(v) ==
    /\ DOMAIN v = {"evolved_questions", "question_answers", "question_contexts",
                   "generation_metadata"}
    /\ v.generation_metadata.total_questions = Len(v.evolved_questions)
    /\ v.generation_metadata.evolution_types_count.simple
          + v.generation_metadata.evolution_types_count.multi_context
          + v.generation_metadata.evolution_types_count.reasoning
          = v.generation_metadata.total_questions

\* C10: when every TextCompletion call rejects, run() still calls all six
\* stages, ends, and returns a well-formed result; it does not throw (while
\* every call so far has rejected, a run that has not ended can take a step,
\* and every step increases the bounded Rank).
C10_AllCallsReject ==
    /\ [](allRejected =>
            /\ result = Pending => CanStep
            /\ result # Pending
                  => Returned /\ stageLog = StageOrder /\ WellFormed(result.value))
    /\ [][allRejected' => Rank' > Rank /\ Rank' < 30000]_vars

C10_Witness ==
    /\ Returned
    /\ allRejected
    /\ calls > 2
    /\ Len(currentState.processed_docs) = 2


\* C11: when run() has returned after k TextCompletion calls failed, the
\* errors it reports hold one entry for each of those k failures, not
\* counting the message about needing two documents.
C11_EveryFailureRecorded ==
    Returned =>
        Len(SelectSeq(result.value.generation_metadata.processing_errors,
                      LAMBDA e : e # NeedTwoDocuments)) >= failedCalls


Thrown == result.status = "thrown"

\* C12: when the graph invocation throws an Error with message m, run()
\* throws one error whose message is "Generation failed: " followed by m;
\* run() throws only when the invocation threw, and then it returns nothing:
\* what it produces has a status and a message and no value.
C12_WrappedError ==
    /\ Thrown => /\ invokeError.caught
                 /\ DOMAIN result = {"status", "message"}
                 /\ invokeError.isError
                       => result.message = << "Generation failed: " >> \o invokeError.message
    /\ invokeError.caught => Thrown

C12_Witness ==
    /\ Thrown
    /\ invokeError.isError
    /\ invokeError.message = << "Processing failed" >>
    /\ result.message = << "Generation failed: ", "Processing failed" >>
    /\ currentState.errors = << "first" >>

Unregistered == Running /\ currentNode \notin DOMAIN graph.nodes

\* what invoke does at an unregistered node: it throws "Node ... not found",
\* which run() rethrows, and no stage function is called
FailsFast ==
    /\ Thrown'
    /\ invokeError' = ErrorOf(<< "Node ", currentNode, " not found" >>)
    /\ result'.message = << "Generation failed: ", "Node ", currentNode, " not found" >>
    /\ stageLog' = stageLog
    /\ currentState' = currentState

\* invoke throws only for an unregistered node or because the node function
\* it awaited threw; once run() has thrown or returned nothing runs
ThrowsForNothingElse ==
    /\ Running /\ Thrown' /\ currentNode \in DOMAIN graph.nodes
          => /\ graph.nodes[currentNode].throws
             /\ invokeError' = graph.nodes[currentNode].error
    /\ ~Running => UNCHANGED vars

\* after a node function has returned, a node with no outgoing edge or with
\* an edge to 'END' leaves the loop, and the run then returns
EndsNormally ==
    /\ stageLog' # stageLog /\ ~Thrown'
       /\ (currentNode \notin DOMAIN graph.edges \/ graph.edges[currentNode] = "END")
          => currentNode' = "END"
    /\ Running /\ currentNode = "END" => Returned' /\ stageLog' = stageLog

\* C14, as the claim states it: whenever the current node name, other than
\* the marker 'END', has no registered function, invoke throws and calls no
\* further stage function, and run() rethrows; invoke throws for no
\* other reason of its own; a node with no outgoing edge, or 'END', ends the
\* run normally.
C14_FailFast ==
    [][/\ Unregistered /\ currentNode # "END" => FailsFast
       /\ ThrowsForNothingElse
       /\ EndsNormally]_vars

\* C14, amended: the same for a current node name that is neither empty nor
\* 'END'; an empty name (setStart never called, or an edge to '') ends the
\* run normally as 'END' does, with no stage function called for it.
C14_FailFastNonEmptyName ==
    [][/\ Unregistered /\ currentNode \notin {"", "END"} => FailsFast
       /\ Running /\ currentNode = "" => Returned' /\ stageLog' = stageLog
       /\ stageLog' # stageLog /\ ~Thrown'
          /\ currentNode \in DOMAIN graph.edges /\ graph.edges[currentNode] = ""
             => currentNode' = "END"
       /\ ThrowsForNothingElse
       /\ EndsNormally]_vars

C14_Witness ==
    /\ Thrown
    /\ stageLog = << "a" >>
    /\ currentNode = Ghost
    /\ invokeError = ErrorOf(<< "Node ", "ghost", " not found" >>)
    /\ currentState.errors = << "first" >>

\* C15: when a node function has returned, the running state has exactly
\* the keys of the old state and of the partial result; every key of the
\* partial result has the partial's value, every other key keeps its value;
\* the object that was passed to invoke keeps the value it was passed with.
C15_ShallowMerge ==
    /\ [](initialObject = [documents |-> <<>>, processed_docs |-> <<>>,
                           evolved_questions |-> <<>>, question_answers |-> <<>>,
                           question_contexts |-> <<>>, errors |-> <<>>])
    /\ [][stageLog' # stageLog /\ ~Thrown'
            => LET partial == graph.nodes[currentNode].partial
               IN /\ DOMAIN currentState' = DOMAIN currentState \cup DOMAIN partial
                  /\ \A k \in DOMAIN partial : currentState'[k] = partial[k]
                  /\ \A k \in DOMAIN currentState \ DOMAIN partial :
                         currentState'[k] = currentState[k]]_vars

C15_Witness ==
    /\ stageLog = << "a", "b" >>
    /\ currentState.errors = << "second" >>
    /\ "extra" \in DOMAIN currentState
    /\ currentState.extra = 1
    /\ currentState.evolved_questions = <<>>
    /\ initialObject.errors = <<>>


\* how many calls of identifier isAllowed let through at a time in from..to
AllowedBetween(identifier, from, to) ==
    Cardinality({i \in 1..Len(allowedLog[identifier]) :
                    /\ from <= allowedLog[identifier][i]
                    /\ allowedLog[identifier][i] <= to})

\* this step is a call of the RateLimiter method op
LimiterCalled(op) ==
    /\ lastCall' # lastCall \/ allowedLog' # allowedLog
    /\ lastCall'.op = op

\* C16: for every identifier, every stretch of windowMs milliseconds holds at
\* most maxRequests calls that isAllowed let through; and isAllowed returns
\* true exactly when fewer than maxRequests calls of the identifier were let
\* through in the windowMs milliseconds ending now.
C16_AtMostMaxRequests ==
    /\ [](\A identifier \in Identifiers : \A t \in 0..now :
             AllowedBetween(identifier, t, t + windowMs - 1) <= maxRequests)
    /\ [][LimiterCalled("isAllowed")
            => lastCall'.returned
                  = (AllowedBetween(lastCall'.identifier, now - windowMs + 1, now)
                        < maxRequests)]_vars

C16_Witness ==
    /\ lastCall.op = "isAllowed"
    /\ lastCall.identifier = "user1"
    /\ ~lastCall.returned
    /\ lastCall.time = windowMs - 1
    /\ Len(allowedLog["user1"]) = maxRequests
    /\ allowedLog["user1"][1] = 0

\* C17: isAllowed returns true for an identifier once windowMs milliseconds
\* have passed since every request recorded for it, and since every call of
\* it that was let through; a denied call changes nothing that is recorded.
C17_ResetsAfterWindow ==
    [][LimiterCalled("isAllowed")
         => LET identifier == lastCall'.identifier
            IN /\ (\A i \in 1..Len(requests[identifier]) :
                      now - requests[identifier][i] >= windowMs)
                     => lastCall'.returned
               /\ (\A i \in 1..Len(allowedLog[identifier]) :
                      now - allowedLog[identifier][i] >= windowMs)
                     => lastCall'.returned
               /\ ~lastCall'.returned
                     => requests' = requests /\ allowedLog' = allowedLog]_vars

C17_Witness ==
    /\ lastCall.op = "isAllowed"
    /\ lastCall.identifier = "user1"
    /\ lastCall.returned
    /\ lastCall.time = windowMs
    /\ Len(allowedLog["user1"]) = maxRequests + 1
    /\ allowedLog["user1"][maxRequests] = 0
    /\ requests["user1"] = << windowMs >>

\* C18: a call of isAllowed or getRemainingRequests for one identifier leaves
\* the recorded requests of every other identifier as they were, and with
\* them what isAllowed and getRemainingRequests return for it at any time.
C18_IdentifiersSeparate ==
    [][LimiterCalled("isAllowed") \/ LimiterCalled("getRemainingRequests")
         => \A b \in Identifiers \ {lastCall'.identifier} :
               /\ requests'[b] = requests[b]
               /\ allowedLog'[b] = allowedLog[b]
               /\ \A t \in now..MaxTime :
                     /\ getRemainingRequests(requests', b, t)
                           = getRemainingRequests(requests, b, t)
                     /\ isAllowed(requests', b, t).returns
                           = isAllowed(requests, b, t).returns]_vars

C18_Witness ==
    /\ lastCall.op = "isAllowed"
    /\ lastCall.identifier = "user2"
    /\ lastCall.returned
    /\ Len(requests["user1"]) = maxRequests
    /\ requests["user2"] = << now >>
    /\ getRemainingRequests(requests, "user1", now) = 0

\* C19: getRemainingRequests returns maxRequests less the number of calls of
\* the identifier let through in the windowMs milliseconds ending now, or 0
\* when that is negative, and changes nothing; isAllowed returns true
\* exactly when getRemainingRequests at the same instant is above 0.
C19_RemainingRequests ==
    [][/\ LimiterCalled("getRemainingRequests")
          => LET used == AllowedBetween(lastCall'.identifier, now - windowMs + 1, now)
             IN /\ lastCall'.returned
                      = (IF used >= maxRequests THEN 0 ELSE maxRequests - used)
                /\ lastCall'.returned >= 0
                /\ requests' = requests
                /\ allowedLog' = allowedLog
       /\ LimiterCalled("isAllowed")
          => lastCall'.returned
                = (getRemainingRequests(requests, lastCall'.identifier, now) > 0)]_vars

C19_Witness ==
    /\ lastCall.op = "getRemainingRequests"
    /\ lastCall.identifier = "user1"
    /\ lastCall.returned = maxRequests - 1
    /\ Len(allowedLog["user1"]) = maxRequests + 1
    /\ Len(requests["user1"]) = 1


\* the response the TextCompletion gave for the k-th document: extraction
\* makes the first calls of a run, one for each document in order
ResponseFor(k) == script[((k - 1) % ScriptLen) + 1]

\* the trimmed lines of a response that end in '?', in response order, at
\* most three of them; the canned question when there is none
SeedsOf(resp) ==
    LET lines == SplitNL(resp.content, <<>>)
        ends == {i \in 1..Len(lines) :
                    LET line == Trim(lines[i])
                    IN line # <<>> /\ line[Len(line)] = "?"}
        nth(j) == CHOOSE i \in ends : Cardinality({x \in ends : x < i}) = j - 1
        n == IF Cardinality(ends) < 3 THEN Cardinality(ends) ELSE 3
    IN IF resp.rejects \/ ends = {}
       THEN << CannedQuestion >>
       ELSE [j \in 1..n |-> Trim(lines[nth(j)])]

\* C20: every processed document has between 1 and 3 seed questions: the
\* trimmed lines of the response for that document that end in '?', in
\* response order, at most the first 3; when no line qualifies or the call
\* rejected, exactly the canned question; and every document read so far is
\* among the processed documents, in order.
C20_SeedQuestions ==
    /\ \A docs \in ProcessedLists : \A k \in 1..Len(docs) :
          /\ Len(docs[k].initial_questions) \in 1..3
          /\ docs[k].initial_questions = SeedsOf(ResponseFor(k))
          /\ docs[k].content = currentState.documents[k].pageContent
    /\ frame.fn = "processDocuments" => Len(frame.processed_docs) = frame.i
    /\ stageLog # <<>> /\ frame.fn # "processDocuments"
          => Len(currentState.processed_docs) = Len(currentState.documents)

C20_Witness ==
    /\ Len(currentState.processed_docs) = 2
    /\ script[1] = Resolved(<<"a", "?", "\n", "b", ".", "\n", "\n", " ", "c", "?", "\n",
                              "d", "?", "\n", "e", "?">>)
    /\ script[2] = Rejected
    /\ currentState.processed_docs[1].initial_questions
          = << << "a", "?" >>, << "c", "?" >>, << "d", "?" >> >>
    /\ currentState.processed_docs[2].initial_questions = << CannedQuestion >>


\* C26: within one run() at most one TextCompletion call is in flight: a
\* call is in flight exactly while the stage function that issued it is
\* suspended, a call is issued only when none is in flight, and while one is
\* in flight the only thing that happens is that it settles, so no loop
\* iteration and no stage issues another call before.
C26_OneCallInFlight ==
    /\ [](inFlight \in {0, 1} /\ (inFlight = 1 <=> awaiting))
    /\ [][/\ inFlight' > inFlight => inFlight = 0
          /\ inFlight = 1 => inFlight' = 0 /\ calls' = calls + 1
                             /\ stageLog' = stageLog]_vars

C26_Witness ==
    /\ inFlight = 1
    /\ frame.fn = "generateAnswers"
    /\ frame.k = 2
    /\ calls > 5


\* the answer the TextCompletion gives to call number c of a run, from 0
ResponseAt(c) == script[(c % ScriptLen) + 1]

\* a call yields a text: it resolves, and with more than white space
Succeeds(resp) == ~resp.rejects /\ Trim(resp.content) # <<>>

\* the seed questions of the documents, documents in index order and the
\* seed questions of each in list order, each with its document's id
RECURSIVE FlattenSeeds(_, _)
FlattenSeeds(docs, d) ==
    IF d > Len(docs) THEN <<>>
    ELSE [q \in 1..Len(docs[d].initial_questions) |->
             [id |-> docs[d].id, seed |-> docs[d].initial_questions[q]]]
         \o FlattenSeeds(docs, d + 1)

\* an evolved question without its id
Shape(e) ==
    [question |-> e.question,
     evolution_type |-> e.evolution_type,
     complexity_score |-> e.complexity_score,
     source_document_ids |-> e.source_document_ids,
     original_question |-> e.metadata.original_question]

Shapes(questions) == [n \in 1..Len(questions) |-> Shape(questions[n])]

OfKind(questions, kind) == SelectSeq(questions, LAMBDA e : e.evolution_type = kind)

\* the numbers, among first..last, of the calls that yield a text
RECURSIVE Hits(_, _)
Hits(first, last) ==
    IF first > last THEN <<>>
    ELSE (IF Succeeds(ResponseAt(first)) THEN << first >> ELSE <<>>)
         \o Hits(first + 1, last)

\* the simple questions a run over docs must produce: calls Len(docs),
\* Len(docs) + 1, ... go to the seed questions in order
ExpectedSimple(docs) ==
    LET seeds == FlattenSeeds(docs, 1)
        hits == Hits(Len(docs), Len(docs) + Len(seeds) - 1)
    IN [n \in 1..Len(hits) |->
           [question |-> Trim(ResponseAt(hits[n]).content),
            evolution_type |-> "simple",
            complexity_score |-> 5,
            source_document_ids |-> << seeds[hits[n] - Len(docs) + 1].id >>,
            original_question |-> seeds[hits[n] - Len(docs) + 1].seed]]

\* simpleEvolution has returned
SimpleDone == Len(stageLog) > 2 \/ (Len(stageLog) = 2 /\ frame = NoFrame)

\* the seed questions before position (d, q)
SeedsBefore(docs, d, q) ==
    Len(FlattenSeeds(SubSeq(docs, 1, IF d - 1 < Len(docs) THEN d - 1 ELSE Len(docs)), 1))
        + q - 1

\* C21: simple_evolution makes one call for each seed question of every
\* processed document, documents in index order and seeds in list order; the
\* simple questions are the texts of the calls that yielded one, in that
\* order, each with kind simple and the id of its document as only source;
\* a rejected or empty answer adds nothing, so there are at most as many
\* simple questions as seed questions.
C21_SimpleEvolution ==
    LET docs == currentState.processed_docs
        seeds == FlattenSeeds(docs, 1)
    IN /\ \A questions \in QuestionLists :
              LET simple == Shapes(OfKind(questions, "simple"))
              IN /\ IsPrefix(simple, ExpectedSimple(docs))
                 /\ Len(simple) <= Len(seeds)
                 /\ SimpleDone => simple = ExpectedSimple(docs)
       /\ frame.fn = "simpleEvolution"
             => /\ calls = Len(docs) + SeedsBefore(docs, frame.d, frame.q)
                /\ Len(frame.evolved_questions) <= calls - Len(docs)
       /\ Len(stageLog) = 2 /\ frame = NoFrame => calls = Len(docs) + Len(seeds)

C21_Witness ==
    /\ Len(stageLog) = 2
    /\ frame = NoFrame
    /\ Len(currentState.processed_docs) = 2
    /\ Len(currentState.processed_docs[1].initial_questions) = 3
    /\ Len(currentState.processed_docs[2].initial_questions) = 1
    /\ calls = 6
    /\ Len(currentState.evolved_questions) = 2
    /\ currentState.evolved_questions[1].metadata.original_question = << "c", "?" >>
    /\ currentState.evolved_questions[2].metadata.original_question = << "d", "?" >>
    /\ currentState.evolved_questions[2].source_document_ids = << << "doc_", 0 >> >>
    /\ currentState.evolved_questions[2].evolution_type = "simple"


\* calls made when multiContextEvolution starts: one for each document and
\* one for each seed question
CallsBeforeMulti(docs) == Len(docs) + Len(FlattenSeeds(docs, 1))

\* the multi_context questions a run over docs must produce: one call for
\* each document but the last, paired with the next one
ExpectedMulti(docs) ==
    IF Len(docs) < 2 THEN <<>>
    ELSE LET first == CallsBeforeMulti(docs)
             hits == Hits(first, first + Len(docs) - 2)
         IN [n \in 1..Len(hits) |->
                LET i == hits[n] - first + 1
                IN [question |-> Trim(ResponseAt(hits[n]).content),
                    evolution_type |-> "multi_context",
                    complexity_score |-> 7,
                    source_document_ids |-> << docs[i].id, docs[i + 1].id >>,
                    original_question |-> docs[i].initial_questions[1]]]

\* multiContextEvolution has returned
MultiDone == Len(stageLog) > 3 \/ (Len(stageLog) = 3 /\ frame = NoFrame)

CallsBeforeReasoning(docs) ==
    CallsBeforeMulti(docs) + (IF Len(docs) >= 2 THEN Len(docs) - 1 ELSE 0)

NotReasoning(questions) ==
    SelectSeq(questions, LAMBDA e : e.evolution_type # "reasoning")

\* the questions reasoningEvolution evolves: the first two of the list it
\* starts with that have a source document with content
ReasoningSources(docs, pre) ==
    SelectSeq(SubSeq(pre, 1, IF Len(pre) < 2 THEN Len(pre) ELSE 2),
              LAMBDA e : ContentLength(FindSourceContext(docs, e)) > 0)

\* the reasoning questions a run must produce from the list pre
ExpectedReasoning(docs, pre) ==
    LET from == ReasoningSources(docs, pre)
        first == CallsBeforeReasoning(docs)
        hits == Hits(first, first + Len(from) - 1)
    IN [n \in 1..Len(hits) |->
           LET eq == from[hits[n] - first + 1]
           IN [question |-> Trim(ResponseAt(hits[n]).content),
               evolution_type |-> "reasoning",
               complexity_score |-> 8,
               source_document_ids |-> eq.source_document_ids,
               original_question |-> eq.question]]

\* reasoningEvolution has returned
ReasoningDone == Len(stageLog) > 4 \/ (Len(stageLog) = 4 /\ frame = NoFrame)

\* C23: reasoning_evolution evolves only the first 2 entries of the list of
\* evolved questions it starts with, whatever their kind: it makes at most 2
\* calls and appends at most 2 reasoning questions, after all others, each
\* with the sources of the question it comes from and that question's text
\* as original question; a reasoning question never comes from a reasoning
\* question.
C23_ReasoningFirstTwo ==
    LET docs == currentState.processed_docs
    IN /\ \A questions \in QuestionLists :
              LET pre == NotReasoning(questions)
                  reasoning == OfKind(questions, "reasoning")
              IN /\ questions = pre \o reasoning
                 /\ Len(reasoning) <= 2
                 /\ IsPrefix(Shapes(reasoning), ExpectedReasoning(docs, pre))
                 /\ ReasoningDone => Shapes(reasoning) = ExpectedReasoning(docs, pre)
                 /\ \A r \in 1..Len(reasoning) :
                       \E k \in 1..2 :
                          /\ k <= Len(pre)
                          /\ reasoning[r].metadata.original_question = pre[k].question
                          /\ reasoning[r].source_document_ids = pre[k].source_document_ids
       /\ frame.fn = "reasoningEvolution"
             => /\ calls >= CallsBeforeReasoning(docs)
                /\ calls <= CallsBeforeReasoning(docs) + 2
       /\ Len(stageLog) = 4 /\ frame = NoFrame
             => calls <= CallsBeforeReasoning(docs) + 2

C23_Witness ==
    /\ Len(stageLog) = 4
    /\ frame = NoFrame
    /\ Len(currentState.evolved_questions) = 5
    /\ Len(NotReasoning(currentState.evolved_questions)) = 3
    /\ currentState.evolved_questions[4].evolution_type = "reasoning"
    /\ currentState.evolved_questions[5].metadata.original_question
          = currentState.evolved_questions[2].question
    /\ currentState.evolved_questions[5].source_document_ids
          = currentState.evolved_questions[2].source_document_ids


\* every list of answers that exists somewhere in a state
AnswerLists ==
    {currentState.question_answers}
    \cup (IF "question_answers" \in DOMAIN frame THEN {frame.question_answers} ELSE {})
    \cup (IF Returned THEN {result.value.question_answers} ELSE {})

\* the evolved questions that have a source among the processed documents
Resolvable(docs, questions) ==
    SelectSeq(questions,
              LAMBDA e : \E d \in 1..Len(docs) : \E n \in 1..Len(e.source_document_ids) :
                            e.source_document_ids[n] = docs[d].id)

\* calls made when generateAnswers starts
CallsBeforeAnswers(docs, questions) ==
    CallsBeforeReasoning(docs)
        + Len(ReasoningSources(docs, NotReasoning(questions)))

\* the answers a run must produce for the evolved questions
ExpectedAnswers(docs, questions) ==
    LET asked == Resolvable(docs, questions)
        first == CallsBeforeAnswers(docs, questions)
        hits == Hits(first, first + Len(asked) - 1)
    IN [n \in 1..Len(hits) |->
           LET eq == asked[hits[n] - first + 1]
           IN [question_id |-> eq.id,
               answer |-> Trim(ResponseAt(hits[n]).content),
               confidence_score |-> "0.85",
               source_documents |-> eq.source_document_ids]]

\* generateAnswers has returned
AnswersDone == Len(stageLog) > 5 \/ (Len(stageLog) = 5 /\ frame = NoFrame)

\* C24: question_answers holds at most one answer for each evolved
\* question, every question_id is the id of an evolved question, the answers
\* are in the order of their questions, and they are exactly the texts of
\* the calls that yielded one, a call being made for each question with a
\* source among the processed documents; a rejected or empty answer leaves
\* the question without answer. Until the stage returns the state holds no
\* answers, and then it holds the stage's list.
C24_AnswersFollowQuestions ==
    LET docs == currentState.processed_docs
        questions == currentState.evolved_questions
    IN /\ \A answers \in AnswerLists :
              /\ \A a \in 1..Len(answers) :
                    \E k \in 1..Len(questions) :
                       /\ questions[k].id = answers[a].question_id
                       /\ questions[k].source_document_ids = answers[a].source_documents
                       /\ \A b \in 1..(a - 1) : \E j \in 1..(k - 1) :
                             questions[j].id = answers[b].question_id
              /\ Len(answers) <= Len(questions)
              /\ answers # <<>> => IsPrefix(answers, ExpectedAnswers(docs, questions))
              /\ AnswersDone => answers = ExpectedAnswers(docs, questions)
       /\ ~AnswersDone => currentState.question_answers = <<>>
       /\ Len(stageLog) = 5 /\ frame = NoFrame
             => calls = CallsBeforeAnswers(docs, questions)
                           + Len(Resolvable(docs, questions))

C24_Witness ==
    /\ Len(stageLog) = 5
    /\ frame = NoFrame
    /\ Len(currentState.evolved_questions) = 3
    /\ Len(currentState.question_answers) = 2
    /\ currentState.question_answers[1].question_id = currentState.evolved_questions[1].id
    /\ currentState.question_answers[2].question_id = currentState.evolved_questions[3].id


\* some source document of the question, among docs, yields a passage
HasPassage(docs, eq) ==
    \E d \in 1..Len(docs) :
        /\ \E n \in 1..Len(eq.source_document_ids) : eq.source_document_ids[n] = docs[d].id
        /\ extractRelevantPassages(eq.question, docs[d].content) # <<>>

\* C25: no entry of question_contexts has an empty contexts array; each
\* question_id is the id of an evolved question and every context_sources
\* entry is one of that question's source ids; the entries are, in order,
\* those of the evolved questions for which some source document yields a
\* passage, every other question having no entry.
C25_NoEmptyContexts ==
    LET docs == currentState.processed_docs
        questions == currentState.evolved_questions
        with == SelectSeq(questions, LAMBDA e : HasPassage(docs, e))
    IN \A entries \in ContextLists :
          /\ \A c \in 1..Len(entries) :
                /\ entries[c].contexts # <<>>
                /\ \E k \in 1..Len(questions) :
                      /\ questions[k].id = entries[c].question_id
                      /\ \A n \in 1..Len(entries[c].context_sources) :
                            \E m \in 1..Len(questions[k].source_document_ids) :
                               questions[k].source_document_ids[m]
                                  = entries[c].context_sources[n]
          /\ entries # <<>> \/ Returned
                => /\ Len(entries) = Len(with)
                   /\ \A c \in 1..Len(entries) : entries[c].question_id = with[c].id

C25_Witness ==
    /\ Returned
    /\ Len(currentState.processed_docs) = 2
    /\ currentState.processed_docs[1].content = ContentTiny
    /\ Len(result.value.evolved_questions) > Len(result.value.question_contexts)
    /\ Len(result.value.question_contexts) >= 2
    /\ result.value.question_contexts[1].question_id = result.value.evolved_questions[2].id
    /\ result.value.question_contexts[2].question_id = result.value.evolved_questions[3].id
    /\ result.value.evolved_questions[3].evolution_type = "multi_context"
    /\ result.value.question_contexts[2].context_sources[1] = << "doc_", 1 >>


\* the processed documents a run over documents must produce
ExpectedProcessed(documents) ==
    [k \in 1..Len(documents) |->
        [id |-> << "doc_", k - 1 >>,
         content |-> documents[k].pageContent,
         metadata |-> documents[k].metadata,
         initial_questions |-> SeedsOf(ResponseFor(k))]]

\* the evolved questions a run over documents must produce, ids aside
ExpectedShapes(documents) ==
    LET docs == ExpectedProcessed(documents)
        pre == ExpectedSimple(docs) \o ExpectedMulti(docs)
    IN pre \o ExpectedReasoning(docs, pre)

\* questions without ids, each with its place in the list as id
Numbered(shapes) ==
    [n \in 1..Len(shapes) |->
        [id |-> n,
         question |-> shapes[n].question,
         evolution_type |-> shapes[n].evolution_type,
         source_document_ids |-> shapes[n].source_document_ids]]

\* the place in questions of the question with this id, 0 when there is none
PlaceOf(questions, id) ==
    IF \E k \in 1..Len(questions) : questions[k].id = id
    THEN CHOOSE k \in 1..Len(questions) : questions[k].id = id
    ELSE 0

\* answers or contexts with the place of their question instead of its id
ByPlace(entries, questions) ==
    [n \in 1..Len(entries) |->
        [entries[n] EXCEPT !.question_id = PlaceOf(questions, @)]]

\* what run(documents) returns when no other run is in progress, ids aside:
\* the calls of a run go to the documents, the seed questions, the pairs of
\* documents, the first two questions and all questions, in this order
RunAlone(documents) ==
    LET docs == ExpectedProcessed(documents)
        questions == Numbered(ExpectedShapes(documents))
    IN [questions |-> ExpectedShapes(documents),
        answers |-> ExpectedAnswers(docs, questions),
        contexts |-> retrieveContexts(docs, questions),
        errors |-> IF Len(documents) < 2 THEN << NeedTwoDocuments >> ELSE <<>>]

\* what a run has returned, ids aside
Outcome(value) ==
    [questions |-> Shapes(value.evolved_questions),
     answers |-> ByPlace(value.question_answers, value.evolved_questions),
     contexts |-> ByPlace(value.question_contexts, value.evolved_questions),
     errors |-> value.generation_metadata.processing_errors]

\* both runs have returned
BothReturned ==
    /\ Returned
    /\ suspended.status = "suspended"
    /\ suspended.result.status = "returned"

QuestionIds(value) ==
    {value.evolved_questions[k].id : k \in 1..Len(value.evolved_questions)}

\* C27: two run() calls whose awaits interleave in any way do not
\* cross-talk: a run that has returned has returned the questions, answers,
\* contexts and processing errors that a run over its documents with its
\* TextCompletion answers returns alone (ids aside, answers and contexts
\* referring to the same questions), and no question of one run is among the
\* questions of the other.
C27_NoCrossTalk ==
    /\ Returned => Outcome(result.value) = RunAlone(currentState.documents)
    /\ BothReturned
          => QuestionIds(result.value) \cap QuestionIds(suspended.result.value) = {}

C27_Witness ==
    /\ BothReturned
    /\ Len(currentState.documents) = 1
    /\ Len(suspended.currentState.documents) = 2
    /\ script # suspended.script
    /\ result.value.generation_metadata.processing_errors = << NeedTwoDocuments >>
    /\ suspended.result.value.generation_metadata.processing_errors = <<>>
    /\ Len(result.value.evolved_questions) >= 1
    /\ Len(result.value.question_answers) >= 1
    /\ \E a \in QuestionIds(suspended.result.value), b \in QuestionIds(suspended.result.value) :
          \E mine \in QuestionIds(result.value) : a < mine /\ mine < b


\* both runs were given the same documents and the same answers
SameInputs ==
    /\ suspended.status = "suspended"
    /\ suspended.currentState.documents = currentState.documents
    /\ suspended.script = script

ParagraphCandidates(content) ==
    LET startIndex == ScanStart(content, 0, 0)
    IN ParagraphPassages(SplitParagraphs(content, startIndex, startIndex + 1))

\* what the chunks of lines of a content give as passages
LineCandidates(content) ==
    LET startIndex == ScanStart(content, 0, 0)
    IN ChunkLines(content, LongLines(content, startIndex + 1),
                  [first |-> 0, last |-> 0, len |-> 0])

\* what the fixed slices give, tried for contents of more than 100 characters
SliceCandidates(content) ==
    IF ContentLength(content) > 100 THEN SlicePassages(content, 0) ELSE <<>>

\* the candidates of the first strategy that yields any
FirstYield(content) ==
    IF ParagraphCandidates(content) # <<>> THEN ParagraphCandidates(content)
    ELSE IF LineCandidates(content) # <<>> THEN LineCandidates(content)
    ELSE SliceCandidates(content)

Responded == response.status = 200

\* the answers and contexts of the response refer to returned questions, and
\* the counts are those of the returned questions
ResponseConsistent ==
    LET body == response.body
        questions == body.evolved_questions
    IN /\ \A a \in 1..Len(body.question_answers) :
             body.question_answers[a].question_id \in IdsOf(questions)
       /\ \A c \in 1..Len(body.question_contexts) :
             body.question_contexts[c].question_id \in IdsOf(questions)
       /\ body.generation_metadata.total_questions = Len(questions)
       /\ \A kind \in EvolutionTypes :
             body.generation_metadata.evolution_types_count[kind]
                = CountKind(questions, kind)

\* C30: in the response of /api/generate evolved_questions has at most
\* maxQuestions entries, every returned question has an evolution_type that
\* config.evolutionTypes lists, every returned answer and context refers to
\* a returned question, and total_questions and evolution_types_count are
\* those of the returned questions.
C30_FilteredResponse ==
    Responded
        => /\ Len(response.body.evolved_questions) <= validatedConfig.maxQuestions
           /\ \A k \in 1..Len(response.body.evolved_questions) :
                 Includes(validatedConfig.evolutionTypes,
                          response.body.evolved_questions[k].evolution_type)
           /\ ResponseConsistent

=============================================================================
